---- MODULE Spec2Model ----
(***************************************************************************)
(* Model of the Terabox downloader bot: the JSON-file store                *)
(* (bot/database.py), the admission decorators (bot/decorators.py), the    *)
(* token handler (bot/handlers/token.py), /start (bot/handlers/start.py)   *)
(* and the start-up in main.py.                                            *)
(*                                                                         *)
(* Scheduling is asyncio's: one task runs at a time and control changes    *)
(* hands only where a task awaits something that really suspends (a        *)
(* transport call, or an asyncio.Lock that is held).  `running` names the  *)
(* task that is inside a synchronous stretch of code; "none" means the     *)
(* event loop is free to resume any suspended task.                        *)
(***************************************************************************)
EXTENDS Integers, Sequences, FiniteSets, TLC

\* ---------------------------------------------------------------- config
ADMIN_IDS == {2}
Users == {1, 2}
SPAM_DELAY_SECONDS == 60
TOKEN_EXPIRY_HOURS == 24
SecondsPerHour == 3600

\* ---------------------------------------------------------------- bounds
MaxTicks == 1
MaxUuid == 1
TickSteps == {30, TOKEN_EXPIRY_HOURS * SecondsPerHour}

Tasks == {"t1", "t2"}
MainTask == "main"
Procs == Tasks \cup {MainTask}
Kinds == {"start", "get_token", "get_token_cb", "link"}

VARIABLES
    database,   \* bot/database.py  _database (the in-memory dict)
    db_lock,    \* bot/database.py  _db_lock: "free" or the holder
    file,       \* the content of DB_FILE on disk
    backups,    \* the instants at which a DB_FILE.backup_<ts> copy was made
    task,       \* per coroutine: handler, caller, position, locals
    running,    \* the coroutine inside a synchronous stretch, or "none"
    clock,      \* wall clock (seconds)
    nextUuid,   \* the next value uuid.uuid4() hands out
    lastAdmit,  \* history: when spam_check last admitted each caller
    snapshot,   \* history: the in-memory store when the process last stopped
    xfer,       \* per link handler run: the locals of message_handler and
                \* download_and_upload, and what the run did so far
    disk,       \* DOWNLOAD_DIR: the temporary files that exist, by path
    config,     \* bot/config.py: the settings the handlers read
    bcast,      \* the /broadcast run: the locals of broadcast_command and what
                \* the run did so far
    res,        \* the call of get_terabox_download_link: the page it fetched,
                \* its position, what it returned, and what it tried
    outcome     \* what the dispatcher got from the coroutine that ended in the
                \* last step, and how many denial or error messages that
                \* coroutine had sent its caller; NoOutcome if none ended

\* the state of the transfer pipeline and of the broadcast
xvars == <<xfer, disk, config, bcast, res>>

vars == <<database, db_lock, file, backups, task, running, clock, nextUuid,
          lastAdmit, snapshot, xfer, disk, config, bcast, res, outcome>>

\* ---------------------------------------------------------------- values
None == [type |-> "None"]
NoTime == 0 - 1
EmptyDict == <<>>

\* dict.get(k, default)
Get(d, k, default) == IF k \in DOMAIN d THEN d[k] ELSE default

\* d[k] = v
SetKey(d, k, v) == [x \in (DOMAIN d) \cup {k} |-> IF x = k THEN v ELSE d[x]]

\* d.setdefault(k, default), as the resulting dict
SetDefault(d, k, default) == IF k \in DOMAIN d THEN d ELSE SetKey(d, k, default)

\* str(user_id)
str(user_id) == ToString(user_id)

\* a timezone-aware datetime object for the instant t
DateTime(t) == [type |-> "datetime", at |-> t]

\* datetime.isoformat(): the ISO-8601 string of the instant
isoformat(d) == [type |-> "str", at |-> d.at]

\* datetime.fromisoformat(x).replace(tzinfo=utc): only a str parses; anything
\* else raises TypeError
fromisoformat(x) ==
    IF x.type = "str" THEN [type |-> "datetime", at |-> x.at]
    ELSE [type |-> "TypeError"]

\* the dict of a fresh store
EmptyStore == [users |-> <<>>, tokens |-> EmptyDict, spam_tracker |-> EmptyDict]

\* a store an earlier run of the bot left in DB_FILE: caller 1 is registered
\* and holds token 0, issued at the clock's origin
StoredBefore ==
    [users        |-> <<1>>,
     tokens       |-> [k \in {"1"} |->
                          [type |-> "dict", token |-> 0,
                           expires |-> [type |-> "str",
                                        at |-> TOKEN_EXPIRY_HOURS * SecondsPerHour]]],
     spam_tracker |-> EmptyDict]

InList(x, s) == \E i \in 1..Len(s) : s[i] = x

\* timedelta(seconds=config.SPAM_DELAY_SECONDS)
delay == SPAM_DELAY_SECONDS

\* now_utc + timedelta(hours=token_expiry_hours)
expiry_of(now_utc) == now_utc + TOKEN_EXPIRY_HOURS * SecondsPerHour

\* ------------------------------------------------- bot/database.py, in memory
\* What each store function does to _database before it awaits save_db(), and
\* what it returns: [db |-> the dict afterwards, ret |-> the return value].

\* add_user assigning a new list instead of appending to the stored one
Mut_add_user_assign(db, user_id) ==
    IF ~InList(user_id, Get(db, "users", <<>>))
    THEN [db  |-> SetKey(db, "users", <<user_id>>), ret |-> TRUE]
    ELSE [db |-> db, ret |-> FALSE]

Mut_add_user(db, user_id) ==
    [db  |-> SetKey(db, "users", Append(Get(db, "users", <<>>), user_id)),
     ret |-> ~InList(user_id, Get(db, "users", <<>>))]

add_user(db, user_id) ==
    IF ~InList(user_id, Get(db, "users", <<>>))
    THEN [db  |-> SetKey(db, "users", Append(Get(db, "users", <<>>), user_id)),
          ret |-> TRUE]
    ELSE [db |-> db, ret |-> FALSE]

get_all_users(db) == Get(db, "users", <<>>)

Mut_store_token(db, user_id, token, expires_at) ==
    SetKey(db, "tokens",
           SetDefault(Get(db, "tokens", EmptyDict), str(user_id),
                      [type |-> "dict", token |-> token,
                       expires |-> isoformat(expires_at)]))

store_token(db, user_id, token, expires_at) ==
    SetKey(db, "tokens",
           SetKey(Get(db, "tokens", EmptyDict), str(user_id),
                  [type |-> "dict", token |-> token,
                   expires |-> isoformat(expires_at)]))

\* The entry found is the dict held by the store: the assignment to
\* token_data['expires'] replaces the stored ISO string by the datetime object.
get_user_token_data(db, user_id) ==
    LET token_data == Get(Get(db, "tokens", EmptyDict), str(user_id), None)
    IN  IF token_data # None
        THEN LET parsed == fromisoformat(token_data.expires)
             IN  IF parsed.type = "datetime"
                 THEN LET td == [token_data EXCEPT !.expires = parsed]
                      IN  [db  |-> SetKey(db, "tokens",
                                          SetKey(db["tokens"], str(user_id), td)),
                           ret |-> td]
                 ELSE [db |-> db, ret |-> None]
        ELSE [db |-> db, ret |-> None]

Mut_update_spam_time(db, user_id, now_utc) == db

update_spam_time(db, user_id, now_utc) ==
    SetKey(db, "spam_tracker",
           SetKey(Get(db, "spam_tracker", EmptyDict), str(user_id),
                  isoformat(DateTime(now_utc))))

get_last_spam_time(db, user_id) ==
    LET timestamp_str == Get(Get(db, "spam_tracker", EmptyDict), str(user_id), None)
    IN  IF timestamp_str # None
        THEN LET parsed == fromisoformat(timestamp_str)
             IN  IF parsed.type = "datetime" THEN parsed ELSE None
        ELSE None

\* ------------------------------------------------- DB_FILE
Absent  == [state |-> "absent"]
Corrupt == [state |-> "corrupt"]
Json(doc) == [state |-> "json", doc |-> doc]

\* json can serialise lists, dicts, ints and strings; a datetime object is not
\* serialisable
Serializable(db) ==
    /\ \A k \in DOMAIN Get(db, "tokens", EmptyDict) :
           db["tokens"][k].expires.type = "str"
    /\ \A k \in DOMAIN Get(db, "spam_tracker", EmptyDict) :
           db["spam_tracker"][k].type = "str"

\* with open(DB_FILE, 'w') as f: json.dump(_database, f, indent=4)
\* open() truncates the file; the encoder streams the document and raises
\* TypeError at the first value it cannot serialise, which leaves a prefix of
\* the document (no closing brace) in the file.
json_dump(db) == IF Serializable(db) THEN Json(db) ELSE Corrupt

\* json.load(f) followed by the three setdefault calls
json_load(f) ==
    SetDefault(SetDefault(SetDefault(f.doc, "users", <<>>),
                          "tokens", EmptyDict),
               "spam_tracker", EmptyDict)

\* ------------------------------------------------- coroutines
\* kind: the handler the dispatcher started; user: update.from_user.id;
\* pc: where the coroutine stands; val: what add_user returned to it; ret: where
\* save_db() returns to; result: the outcome it is about to report; now_utc:
\* the local of spam_check.wrapper, the instant at which it admitted the request.
IdleTask == [kind |-> "none", user |-> 0, pc |-> "idle", val |-> None,
             ret |-> "none", result |-> "none", now_utc |-> NoTime]

Set(p, r) == [task EXCEPT ![p] = r]

\* The live coroutines are kept in the lowest slots: when the coroutine in
\* "t1" ends while "t2" is suspended, "t2"'s coroutine moves to "t1".
Drop(p) ==
    IF p = "t1"
    THEN [task EXCEPT !["t1"] = task["t2"], !["t2"] = IdleTask]
    ELSE [task EXCEPT ![p] = IdleTask]

At(p, where) == task[p].pc = where

\* a coroutine that was suspended is resumed by the event loop
Resumes(p, where) == At(p, where) /\ running = "none"

\* a coroutine goes on inside its synchronous stretch
Continues(p, where) == At(p, where) /\ running = p

\* the coroutine returned (or raised) with outcome `how`: the dispatcher is done
\* with the update and the coroutine object is dropped
Finish(p, how) == Drop(p)

\* no coroutine ended in the step
NoOutcome == [how |-> "none", told |-> 0]

\* a coroutine ended in the step: `how`, after `told` denial or error messages
Ended(how, told) == [how |-> how, told |-> told]

\* the decorator stack of message_handler without token_required
Mut_Inner(kind) ==
    CASE kind = "start"        -> "start_command"
      [] kind = "get_token"    -> "generate_and_send_token"
      [] kind = "get_token_cb" -> "callback_answer"
      [] kind = "link"         -> "spam_check"

\* the function the fsub_required wrapper calls when the caller passes
Inner(kind) ==
    CASE kind = "start"        -> "start_command"
      [] kind = "get_token"    -> "generate_and_send_token"
      [] kind = "get_token_cb" -> "callback_answer"
      [] kind = "link"         -> "token_required"

\* get_token requests that may still draw a uuid
PendingTokenRequests ==
    Cardinality({t \in Tasks : task[t].kind \in {"get_token", "get_token_cb"}
                               /\ task[t].pc # "token_reply"})

TicksOf(c) == (c \div (TOKEN_EXPIRY_HOURS * SecondsPerHour))
              + ((c % (TOKEN_EXPIRY_HOURS * SecondsPerHour)) \div 30)

\* ------------------------------------------------- message.py: a handler run
\* MAX_TG_UPLOAD_SIZE_BYTES = 2 * 1024 * 1024 * 1024, counted in MiB so that
\* the byte counts fit the checker's integers: sizes are whole MiB throughout
MAX_TG_UPLOAD_SIZE_BYTES == 2 * 1024

\* chunk_size=1024*1024 of response.aiter_bytes, in MiB
chunk_size == 1

\* what config.DUMP_CHAT_ID can hold: 0 (falsy: no archive chat) or a chat id
DumpChatIds == {0, 9}

\* the filenames the resolver hands over
FileNames == {"clip.mp4", "xxx.mp4", "Clip_XXX.MP4"}

\* the sizes a Content-Length header of the download response declares
ContentLengths == {1000, MAX_TG_UPLOAD_SIZE_BYTES, MAX_TG_UPLOAD_SIZE_BYTES + 1}

\* lengths of the stretches of body the chunk loop is followed over: one chunk,
\* or the run of chunks that fills the file up to one chunk below the ceiling
SpanLens == {chunk_size, MAX_TG_UPLOAD_SIZE_BYTES - chunk_size}

\* FloodWait.value, in seconds
FloodWaits == {5}

\* os.path.join(config.DOWNLOAD_DIR, f"{user_id}_{filename}")
download_path(user_id, filename) == <<user_id, filename>>

\* a slot without a run.  pc: where the run stands; status/next/fail: the
\* status text being sent and where the code goes on when the transport call
\* returns or raises; the locals of download_and_upload under their names;
\* fw: the wait of the FloodWait being handled; result: the failure the code
\* last set out to report; history of the run: shown (failure statuses the
\* transport accepted), created (the run opened its temporary file), sends,
\* forwards (calls of send_video, forward), forwarded (a forward call went
\* through), slept (asyncio.sleep durations), progress (the byte counts of the
\* download progress updates that reached message.edit_text, in order)
IdleRun ==
    [pc |-> "none", user |-> 0, filename |-> "none",
     status |-> "none", next |-> "none", fail |-> "none",
     file_size_bytes |-> 0, current_downloaded |-> 0, spans |-> 0,
     downloaded_successfully |-> FALSE, uploaded_message |-> FALSE,
     fw |-> 0, result |-> "none",
     shown |-> <<>>, created |-> FALSE, sends |-> 0, forwards |-> 0,
     forwarded |-> FALSE, slept |-> <<>>, progress |-> <<>>]

\* no call of get_terabox_download_link is under way
IdleCall == [pc |-> "none"]

\* how a /broadcast update can look: the command alone, the command followed
\* by text, the command alone sent as a reply to a message, the command with
\* text as the caption of a media message (message.text is None)
Forms == {"bare", "text", "reply", "caption"}

\* the locals of one run of admin_required / broadcast_command: pc, user (the
\* caller), form, total_users, i (the entries of user_ids the for loop took),
\* user_id, the four counters, fw, and status / next (the text of the reply or
\* edit in flight and where the run goes on once it is accepted).  History:
\* read (get_all_users was called), attempts (the callers a send was tried
\* to, in order), delivered (the sends that went through), replies (the
\* replies and edits the transport accepted), result
IdleCast ==
    [pc |-> "none", user |-> 0, form |-> "none", total_users |-> 0,
     i |-> 0, user_id |-> 0, success_count |-> 0, failed_count |-> 0,
     blocked_count |-> 0, deactivated_count |-> 0, fw |-> 0,
     status |-> "none", next |-> "none", result |-> "none",
     read |-> FALSE, attempts |-> <<>>, delivered |-> <<>>, replies |-> <<>>]

Init ==
    /\ xfer = [t \in Tasks |-> IdleRun]
    /\ disk = {}
    /\ config = [DUMP_CHAT_ID |-> 9, BROADCAST_ENABLED |-> TRUE]
    /\ bcast = IdleCast
    /\ res = IdleCall
    /\ database = EmptyDict
    /\ db_lock = "free"
    /\ file \in {Absent, Corrupt, Json(EmptyStore), Json(EmptyDict),
                 Json(StoredBefore)}
    /\ backups = {}
    /\ task = [p \in Procs |-> IF p = MainTask
                               THEN [IdleTask EXCEPT !.kind = "main",
                                                     !.pc = "load_db"]
                               ELSE IdleTask]
    /\ running = "none"
    /\ clock = 0
    /\ nextUuid = 1
    /\ lastAdmit = [u \in Users |-> NoTime]
    /\ snapshot = None
    /\ outcome = NoOutcome

\* ------------------------------------------------- save_db
\* async with _db_lock: the lock is free, the coroutine takes it and goes on
save_db_acquire(p) ==
    /\ At(p, "save_db") /\ running \in {"none", p}
    /\ db_lock = "free"
    /\ db_lock' = p
    /\ running' = p
    /\ task' = Set(p, [task[p] EXCEPT !.pc = "save_db_write"])
    /\ UNCHANGED xvars
    /\ outcome' = NoOutcome
    /\ UNCHANGED <<database, file, backups, clock, nextUuid, lastAdmit, snapshot>>

\* async with _db_lock: the lock is held (asyncio.Lock is not reentrant): the
\* coroutine is queued as a waiter and suspends
save_db_wait(p) ==
    /\ Continues(p, "save_db")
    /\ db_lock # "free"
    /\ running' = "none"
    /\ UNCHANGED xvars
    /\ outcome' = NoOutcome
    /\ UNCHANGED <<database, db_lock, file, backups, task, clock, nextUuid,
                   lastAdmit, snapshot>>

\* the body of save_db: open + json.dump inside try/except Exception, then the
\* lock is released and save_db returns to its caller
save_db_write(p) ==
    /\ Continues(p, "save_db_write")
    /\ file' = json_dump(database)
    /\ db_lock' = "free"
    /\ task' = Set(p, [task[p] EXCEPT !.pc = task[p].ret, !.ret = "none"])
    /\ UNCHANGED xvars
    /\ outcome' = NoOutcome
    /\ UNCHANGED <<database, backups, running, clock, nextUuid, lastAdmit, snapshot>>

\* ------------------------------------------------- main / load_db
\* main(): await database.load_db(); load_db enters `async with _db_lock`
load_db(p) ==
    /\ Resumes(p, "load_db")
    /\ db_lock = "free"
    /\ db_lock' = p
    /\ running' = p
    /\ task' = Set(p, [task[p] EXCEPT !.pc = "load_db_open"])
    /\ UNCHANGED xvars
    /\ outcome' = NoOutcome
    /\ UNCHANGED <<database, file, backups, clock, nextUuid, lastAdmit, snapshot>>

\* open(DB_FILE) + json.load: the three branches of the try statement
load_db_open(p) ==
    /\ Continues(p, "load_db_open")
    /\ CASE file.state = "json" ->
              /\ database' = json_load(file)
              /\ task' = Set(p, [task[p] EXCEPT !.pc = "load_db_exit"])
         [] file.state = "absent" ->
              /\ database' = EmptyStore
              /\ task' = Set(p, [task[p] EXCEPT !.pc = "save_db",
                                                !.ret = "load_db_exit"])
         [] file.state = "corrupt" ->
              /\ database' = database
              /\ task' = Set(p, [task[p] EXCEPT !.pc = "load_db_backup"])
    /\ UNCHANGED xvars
    /\ outcome' = NoOutcome
    /\ UNCHANGED <<db_lock, file, backups, running, clock, nextUuid, lastAdmit, snapshot>>

\* except json.JSONDecodeError: shutil.copy to DB_FILE.backup_<timestamp>
\* (its failure is logged), then the empty store and save_db()
load_db_backup(p) ==
    /\ Continues(p, "load_db_backup")
    /\ \E copied \in BOOLEAN :
         backups' = IF copied THEN backups \cup {clock} ELSE backups
    /\ database' = EmptyStore
    /\ task' = Set(p, [task[p] EXCEPT !.pc = "save_db", !.ret = "load_db_exit"])
    /\ UNCHANGED xvars
    /\ outcome' = NoOutcome
    /\ UNCHANGED <<db_lock, file, running, clock, nextUuid, lastAdmit, snapshot>>

\* the end of `async with _db_lock` in load_db; main goes on to start the
\* client, whose dispatcher then starts a coroutine per update
load_db_exit(p) ==
    /\ Continues(p, "load_db_exit")
    /\ db_lock' = "free"
    /\ running' = "none"
    /\ task' = Set(p, [task[p] EXCEPT !.pc = "serving"])
    /\ snapshot' = None
    /\ UNCHANGED xvars
    /\ outcome' = NoOutcome
    /\ UNCHANGED <<database, file, backups, clock, nextUuid, lastAdmit>>

\* the process is stopped while the event loop is between callbacks and is
\* started again: module state is initialised anew and main() runs
Restart ==
    /\ running = "none"
    /\ snapshot' = [type |-> "store", db |-> database,
                    served |-> At(MainTask, "serving")]
    /\ database' = EmptyDict
    /\ db_lock' = "free"
    /\ task' = [p \in Procs |-> IF p = MainTask
                                THEN [IdleTask EXCEPT !.kind = "main",
                                                      !.pc = "load_db"]
                                ELSE IdleTask]
    /\ UNCHANGED xvars
    /\ outcome' = NoOutcome
    /\ UNCHANGED <<file, backups, running, clock, nextUuid, lastAdmit>>

\* time passes while no coroutine is inside synchronous code
Tick ==
    /\ running = "none"
    /\ TicksOf(clock) < MaxTicks
    /\ \E d \in TickSteps : clock' = clock + d
    /\ UNCHANGED xvars
    /\ outcome' = NoOutcome
    /\ UNCHANGED <<database, db_lock, file, backups, task, running, nextUuid,
                   lastAdmit, snapshot>>

\* ------------------------------------------------- bot/decorators.py
\* An update arrives and the dispatcher starts the handler's coroutine, which
\* runs fsub_required.wrapper up to its first await: an admin goes straight
\* into the wrapped function, anyone else awaits client.get_chat_member.
\* (FSUB_ID is a required setting; the model takes it as set.)
fsub_required(t) ==
    /\ At(MainTask, "serving")
    /\ running = "none"
    /\ task[t] = IdleTask
    /\ t = "t2" => task["t1"] # IdleTask
    /\ \E k \in Kinds, u \in Users :
         /\ k \in {"get_token", "get_token_cb"}
              => nextUuid + PendingTokenRequests <= MaxUuid
         /\ IF u \in ADMIN_IDS
            THEN /\ task' = Set(t, [IdleTask EXCEPT !.kind = k, !.user = u,
                                                    !.pc = Inner(k)])
                 /\ running' = t
            ELSE /\ task' = Set(t, [IdleTask EXCEPT !.kind = k, !.user = u,
                                                    !.pc = "get_chat_member"])
                 /\ running' = "none"
    /\ UNCHANGED xvars
    /\ outcome' = NoOutcome
    /\ UNCHANGED <<database, db_lock, file, backups, clock, nextUuid,
                   lastAdmit, snapshot>>

\* get_chat_member returns or raises.  Only UserNotParticipant is caught by the
\* outer try; FloodWait and any other error leave the wrapper as exceptions.
get_chat_member(t) ==
    /\ Resumes(t, "get_chat_member")
    /\ \E member \in {"member", "UserNotParticipant", "FloodWait", "Exception"} :
         CASE member = "member" ->
                /\ task' = Set(t, [task[t] EXCEPT !.pc = Inner(task[t].kind)])
                /\ running' = t
                /\ outcome' = NoOutcome
           [] member = "UserNotParticipant" ->
                /\ task' = Set(t, [task[t] EXCEPT !.pc = "fsub_prompt"])
                /\ running' = "none"
                /\ outcome' = NoOutcome
           [] OTHER ->
                /\ task' = Finish(t, "Raised")
                /\ running' = "none"
                /\ outcome' = Ended("Raised", 0)
    /\ UNCHANGED xvars
    /\ UNCHANGED <<database, db_lock, file, backups, clock, nextUuid, lastAdmit, snapshot>>

\* the UserNotParticipant handler: get_chat, the join prompt, return.  A
\* FloodWait in it reaches `await asyncio.sleep(...)`, and decorators.py never
\* imports asyncio: NameError.  Any other error is answered with the error text.
\* A callback query is answered with an alert and then sent the prompt as a
\* message, whose failure is logged only.
fsub_prompt(t) ==
    /\ Resumes(t, "fsub_prompt")
    /\ \E prompt \in {"sent", "FloodWait", "Exception"} :
         LET how == CASE prompt = "sent" -> "MembershipRequired"
                      [] prompt = "FloodWait" -> "Raised"
                      [] OTHER -> "MembershipCheckFailed"
         IN  /\ task' = Finish(t, how)
             /\ \E told \in {1, 2} :
                   /\ told = 2 => (prompt = "sent" /\ task[t].kind = "get_token_cb")
                   /\ outcome' = Ended(how, IF prompt = "FloodWait" THEN 0 ELSE told)
    /\ UNCHANGED xvars
    /\ UNCHANGED <<database, db_lock, file, backups, running, clock, nextUuid,
                   lastAdmit, snapshot>>

\* the two tests of token_required.wrapper (lines 110 and 120): the request
\* passes when there is token data and not now_utc > expires_at
token_passes(token_data, now_utc) ==
    token_data # None /\ ~(now_utc > token_data.expires.at)

\* the test of _generate_and_send_token (token.py line 46): the existing token
\* is sent again when there is token data and expires > now_utc
token_active(existing_token_data, now_utc) ==
    existing_token_data # None /\ existing_token_data.expires.at > now_utc

\* token_required.wrapper.  The expired branch formats its reply with
\* humanize.naturaltime, and decorators.py never imports humanize: NameError.
token_required(t) ==
    /\ Continues(t, "token_required")
    /\ IF task[t].user \in ADMIN_IDS
       THEN /\ task' = Set(t, [task[t] EXCEPT !.pc = "spam_check"])
            /\ outcome' = NoOutcome
            /\ UNCHANGED <<database, running>>
       ELSE LET got == get_user_token_data(database, task[t].user)
                token_data == got.ret
                now_utc == clock
            IN  /\ database' = got.db
                /\ IF token_data = None
                   THEN /\ task' = Set(t, [task[t] EXCEPT !.pc = "reply_text",
                                               !.result = "TokenRequired"])
                        /\ running' = "none"
                        /\ outcome' = NoOutcome
                   ELSE IF ~token_passes(token_data, now_utc)
                   THEN /\ task' = Finish(t, "Raised")
                        /\ running' = "none"
                        /\ outcome' = Ended("Raised", 0)
                   ELSE /\ task' = Set(t, [task[t] EXCEPT !.pc = "spam_check"])
                        /\ running' = running
                        /\ outcome' = NoOutcome
    /\ UNCHANGED xvars
    /\ UNCHANGED <<db_lock, file, backups, clock, nextUuid, lastAdmit, snapshot>>

\* spam_check.wrapper without the bypass for config.ADMIN_IDS
Mut_spam_check(t) ==
    /\ Continues(t, "spam_check")
    /\ LET last_action_time == get_last_spam_time(database, task[t].user)
           now_utc == clock
       IN  IF last_action_time # None
              /\ now_utc - last_action_time.at < delay
           THEN /\ task' = Set(t, [task[t] EXCEPT !.pc = "reply_text",
                                       !.result = "RateLimited"])
                /\ running' = "none"
                /\ UNCHANGED <<database, lastAdmit>>
           ELSE /\ database' = update_spam_time(database, task[t].user, clock)
                /\ lastAdmit' = [lastAdmit EXCEPT ![task[t].user] = now_utc]
                /\ task' = Set(t, [task[t] EXCEPT !.pc = "save_db",
                                       !.ret = "message_handler",
                                       !.now_utc = now_utc])
                /\ running' = running
    /\ UNCHANGED xvars
    /\ outcome' = NoOutcome
    /\ UNCHANGED <<db_lock, file, backups, clock, nextUuid, snapshot>>

\* spam_check.wrapper admitting without a call of update_spam_time
Mut_spam_check_unmarked(t) ==
    /\ Continues(t, "spam_check")
    /\ IF task[t].user \in ADMIN_IDS
       THEN /\ task' = Set(t, [task[t] EXCEPT !.pc = "message_handler"])
            /\ UNCHANGED <<database, running, lastAdmit>>
       ELSE LET last_action_time == get_last_spam_time(database, task[t].user)
                now_utc == clock
            IN  IF last_action_time # None
                   /\ now_utc - last_action_time.at < delay
                THEN /\ task' = Set(t, [task[t] EXCEPT !.pc = "reply_text",
                                            !.result = "RateLimited"])
                     /\ running' = "none"
                     /\ UNCHANGED <<database, lastAdmit>>
                ELSE /\ database' = database
                     /\ lastAdmit' = [lastAdmit EXCEPT ![task[t].user] = now_utc]
                     /\ task' = Set(t, [task[t] EXCEPT !.pc = "message_handler",
                                            !.now_utc = now_utc])
                     /\ running' = running
    /\ UNCHANGED xvars
    /\ outcome' = NoOutcome
    /\ UNCHANGED <<db_lock, file, backups, clock, nextUuid, snapshot>>

\* spam_check.wrapper writing the mark when it denies, too
Mut_spam_check_extends(t) ==
    /\ Continues(t, "spam_check")
    /\ IF task[t].user \in ADMIN_IDS
       THEN /\ task' = Set(t, [task[t] EXCEPT !.pc = "message_handler"])
            /\ UNCHANGED <<database, running, lastAdmit>>
       ELSE LET last_action_time == get_last_spam_time(database, task[t].user)
                now_utc == clock
            IN  IF last_action_time # None
                   /\ now_utc - last_action_time.at < delay
                THEN /\ task' = Set(t, [task[t] EXCEPT !.pc = "reply_text",
                                            !.result = "RateLimited"])
                     /\ running' = "none"
                     /\ database' = update_spam_time(database, task[t].user, clock)
                     /\ UNCHANGED lastAdmit
                ELSE /\ database' = update_spam_time(database, task[t].user, clock)
                     /\ lastAdmit' = [lastAdmit EXCEPT ![task[t].user] = now_utc]
                     /\ task' = Set(t, [task[t] EXCEPT !.pc = "save_db",
                                            !.ret = "message_handler",
                                            !.now_utc = now_utc])
                     /\ running' = running
    /\ UNCHANGED xvars
    /\ outcome' = NoOutcome
    /\ UNCHANGED <<db_lock, file, backups, clock, nextUuid, snapshot>>

\* spam_check.wrapper: the read of the mark, the comparison and the in-memory
\* part of update_spam_time, up to `await save_db()`
spam_check(t) ==
    /\ Continues(t, "spam_check")
    /\ IF task[t].user \in ADMIN_IDS
       THEN /\ task' = Set(t, [task[t] EXCEPT !.pc = "message_handler"])
            /\ UNCHANGED <<database, running, lastAdmit>>
       ELSE LET last_action_time == get_last_spam_time(database, task[t].user)
                now_utc == clock
            IN  IF last_action_time # None
                   /\ now_utc - last_action_time.at < delay
                THEN /\ task' = Set(t, [task[t] EXCEPT !.pc = "reply_text",
                                            !.result = "RateLimited"])
                     /\ running' = "none"
                     /\ UNCHANGED <<database, lastAdmit>>
                ELSE /\ database' = update_spam_time(database, task[t].user, clock)
                     /\ lastAdmit' = [lastAdmit EXCEPT ![task[t].user] = now_utc]
                     /\ task' = Set(t, [task[t] EXCEPT !.pc = "save_db",
                                            !.ret = "message_handler",
                                            !.now_utc = now_utc])
                     /\ running' = running
    /\ UNCHANGED xvars
    /\ outcome' = NoOutcome
    /\ UNCHANGED <<db_lock, file, backups, clock, nextUuid, snapshot>>

\* a denial's message.reply_text, after which the wrapper returns
reply_text(t) ==
    /\ Resumes(t, "reply_text")
    /\ task' = Finish(t, task[t].result)
    /\ outcome' = Ended(task[t].result, 1)
    /\ UNCHANGED xvars
    /\ UNCHANGED <<database, db_lock, file, backups, running, clock, nextUuid,
                   lastAdmit, snapshot>>

\* ------------------------------------------------- bot/handlers
\* message_handler up to its first await: the Invalid Input reply when
\* extract_terabox_link finds no link in the text, the Processing reply otherwise
message_handler(t) ==
    /\ Continues(t, "message_handler")
    /\ \E terabox_link \in BOOLEAN :
         task' = Set(t, [task[t] EXCEPT
                            !.pc = "processing",
                            !.result = IF terabox_link THEN @ ELSE "InvalidInput"])
    /\ running' = "none"
    /\ UNCHANGED xvars
    /\ outcome' = NoOutcome
    /\ UNCHANGED <<database, db_lock, file, backups, clock, nextUuid, lastAdmit, snapshot>>

\* the same, with the caller's mark taken back after the Invalid Input reply
Mut_processing(t) ==
    /\ Resumes(t, "processing")
    /\ task' = Finish(t, "Handled")
    /\ outcome' = IF task[t].result = "InvalidInput"
                  THEN Ended("InvalidInput", 1)
                  ELSE Ended("Handled", 0)
    /\ database' = IF task[t].result = "InvalidInput"
                   THEN SetKey(database, "spam_tracker", EmptyDict)
                   ELSE database
    /\ UNCHANGED xvars
    /\ UNCHANGED <<db_lock, file, backups, running, clock, nextUuid,
                   lastAdmit, snapshot>>

\* the rest of message_handler: the return after the Invalid Input reply, or
\* the resolution and the transfer; it touches no store state
processing(t) ==
    /\ Resumes(t, "processing")
    /\ task' = Finish(t, "Handled")
    /\ outcome' = IF task[t].result = "InvalidInput"
                  THEN Ended("InvalidInput", 1)
                  ELSE Ended("Handled", 0)
    /\ UNCHANGED xvars
    /\ UNCHANGED <<database, db_lock, file, backups, running, clock, nextUuid,
                   lastAdmit, snapshot>>

\* start_command: await database.add_user(user.id); add_user saves only when
\* it appended
start_command(t) ==
    /\ Continues(t, "start_command")
    /\ LET added == add_user(database, task[t].user)
       IN  /\ database' = added.db
           /\ IF added.ret
              THEN /\ task' = Set(t, [task[t] EXCEPT !.pc = "save_db",
                                          !.ret = "start_reply",
                                          !.val = [type |-> "bool", v |-> TRUE]])
                   /\ running' = running
              ELSE /\ task' = Set(t, [task[t] EXCEPT !.pc = "start_reply",
                                          !.val = [type |-> "bool", v |-> FALSE]])
                   /\ running' = running
    /\ UNCHANGED xvars
    /\ outcome' = NoOutcome
    /\ UNCHANGED <<db_lock, file, backups, clock, nextUuid, lastAdmit, snapshot>>

\* start_command after add_user: get_chat and reply_text (both awaited)
start_reply(t) ==
    /\ task[t].pc = "start_reply" /\ running \in {"none", t}
    /\ IF running = t
       THEN /\ running' = "none"
            /\ outcome' = NoOutcome
            /\ UNCHANGED task
       ELSE /\ task' = Finish(t, "Handled")
            /\ outcome' = Ended("Handled", 0)
            /\ UNCHANGED running
    /\ UNCHANGED xvars
    /\ UNCHANGED <<database, db_lock, file, backups, clock, nextUuid, lastAdmit, snapshot>>

\* get_token_callback: await callback_query.answer(...) before the token
callback_answer(t) ==
    /\ task[t].pc = "callback_answer" /\ running \in {"none", t}
    /\ IF running = t
       THEN /\ running' = "none"
            /\ UNCHANGED task
       ELSE /\ task' = Set(t, [task[t] EXCEPT !.pc = "generate_and_send_token"])
            /\ running' = t
    /\ UNCHANGED xvars
    /\ outcome' = NoOutcome
    /\ UNCHANGED <<database, db_lock, file, backups, clock, nextUuid, lastAdmit, snapshot>>

\* _generate_and_send_token up to its first await: the reply with the existing
\* token, or store_token's save_db
generate_and_send_token(t) ==
    /\ Continues(t, "generate_and_send_token")
    /\ LET user_id == task[t].user
           now_utc == clock
           expires_at == DateTime(expiry_of(now_utc))
           got == get_user_token_data(database, user_id)
           existing_token_data == got.ret
       IN  IF token_active(existing_token_data, now_utc)
           THEN /\ database' = got.db
                /\ task' = Set(t, [task[t] EXCEPT !.pc = "token_reply"])
                /\ running' = "none"
                /\ UNCHANGED nextUuid
           ELSE LET new_token == nextUuid
                IN  /\ database' = store_token(got.db, user_id, new_token,
                                               expires_at)
                    /\ nextUuid' = nextUuid + 1
                    /\ task' = Set(t, [task[t] EXCEPT !.pc = "save_db",
                                           !.ret = "token_reply"])
                    /\ running' = running
    /\ UNCHANGED xvars
    /\ outcome' = NoOutcome
    /\ UNCHANGED <<db_lock, file, backups, clock, lastAdmit,
                   snapshot>>

\* source_message.reply_text with the token
token_reply(t) ==
    /\ task[t].pc = "token_reply" /\ running \in {"none", t}
    /\ IF running = t
       THEN /\ running' = "none"
            /\ outcome' = NoOutcome
            /\ UNCHANGED task
       ELSE /\ task' = Finish(t, "Handled")
            /\ outcome' = Ended("Handled", 0)
            /\ UNCHANGED running
    /\ UNCHANGED xvars
    /\ UNCHANGED <<database, db_lock, file, backups, clock, nextUuid,
                   lastAdmit, snapshot>>

\* ------------------------------------------------- specification
Next ==
    \/ \E p \in Procs : save_db_acquire(p) \/ save_db_wait(p) \/ save_db_write(p)
    \/ load_db(MainTask) \/ load_db_open(MainTask) \/ load_db_backup(MainTask)
    \/ load_db_exit(MainTask)
    \/ Restart
    \/ Tick
    \/ \E t \in Tasks :
         \/ fsub_required(t) \/ get_chat_member(t) \/ fsub_prompt(t)
         \/ token_required(t) \/ spam_check(t) \/ reply_text(t)
         \/ message_handler(t) \/ processing(t)
         \/ start_command(t) \/ start_reply(t)
         \/ callback_answer(t) \/ generate_and_send_token(t) \/ token_reply(t)

Spec == Init /\ [][Next]_vars

\* ------------------------------------------------- reading the store
Tokens(db) == Get(db, "tokens", EmptyDict)

HasToken(db, u) == str(u) \in DOMAIN Tokens(db)

TokenOf(db, u) == Tokens(db)[str(u)]

\* the instant a caller's stored token expires, whichever way it is held
ExpiresAt(db, u) == TokenOf(db, u).expires.at

\* the store with every expiry written as its ISO string: two stores with the
\* same Normalize hold the same callers, tokens, expiry instants and marks
Normalize(db) ==
    [users        |-> Get(db, "users", <<>>),
     tokens       |-> [k \in DOMAIN Tokens(db) |->
                          [Tokens(db)[k] EXCEPT
                              !.expires = [type |-> "str", at |-> @.at]]],
     spam_tracker |-> Get(db, "spam_tracker", EmptyDict)]

\* coroutine p leaves the position `where` in this step
Acts(p, where) == task[p].pc = where /\ task'[p].pc # where

NonAdmin(t) == task[t].user \notin ADMIN_IDS

\* the caller was admitted by the throttle gate less than `delay` ago
InCooldown(u) == lastAdmit[u] # NoTime /\ clock - lastAdmit[u] < delay

\* a step of load_db or of the save_db it calls
MainNext ==
    \/ load_db(MainTask) \/ load_db_open(MainTask) \/ load_db_backup(MainTask)
    \/ load_db_exit(MainTask)
    \/ save_db_acquire(MainTask) \/ save_db_wait(MainTask)
    \/ save_db_write(MainTask)

\* no coroutine is between a mutation and the end of its save_db
Quiescent ==
    /\ At(MainTask, "serving")
    /\ running = "none"
    /\ \A t \in Tasks : task[t].pc \notin {"save_db", "save_db_write"}

\* ------------------------------------------------- claims

\* C1: a non-privileged caller's request reaching spam_check is denied as
\* rate-limited exactly when the caller was admitted less than
\* SPAM_DELAY_SECONDS before, and is admitted (mark written, handler entered)
\* otherwise.  So of two requests inside one cooldown window that find the
\* caller outside any earlier window, the first is admitted and the second is
\* denied, however the two coroutines interleave.
C1_ThrottleExactlyOne ==
    [][\A t \in Tasks :
         (Acts(t, "spam_check") /\ NonAdmin(t)) =>
            IF InCooldown(task[t].user)
            THEN /\ task'[t].pc = "reply_text"
                 /\ task'[t].result = "RateLimited"
                 /\ lastAdmit' = lastAdmit
            ELSE /\ task'[t].pc = "save_db"
                 /\ task'[t].ret = "message_handler"
                 /\ get_last_spam_time(database', task[t].user) = DateTime(clock)
                 /\ InCooldown(task[t].user)']_vars

\* C1 witness: two link requests of one non-privileged caller are in flight
\* inside one cooldown window, one admitted and one about to be told to wait
C1_Witness ==
    \E a, b \in Tasks :
        /\ a # b
        /\ task[a].user = task[b].user /\ NonAdmin(a)
        /\ task[a].kind = "link" /\ task[a].pc = "processing"
        /\ task[b].kind = "link" /\ task[b].pc = "reply_text"
        /\ task[b].result = "RateLimited"
        /\ InCooldown(task[a].user)

\* C2: for a non-privileged caller with a stored token, token_required lets
\* the request through to spam_check iff now < the token's expiry, on every
\* check, the first after the token was stored and every later one.  (Stated
\* for every instant but the expiry instant itself, where the gate's `>` and
\* the claim's `<` differ by that one instant.)
C2_TokenGateIffUnexpired ==
    [][\A t \in Tasks :
         (Acts(t, "token_required") /\ NonAdmin(t)
              /\ HasToken(database, task[t].user)
              /\ clock # ExpiresAt(database, task[t].user)) =>
            (task'[t].pc = "spam_check"
                <=> clock < ExpiresAt(database, task[t].user))]_vars

\* C3: a token request made while the caller's stored token has not expired
\* stores nothing new: the token value and its expiry stay as they were and
\* the handler goes straight to the reply that carries the existing token
C3_NoReissueBeforeExpiry ==
    [][\A t \in Tasks :
         (Acts(t, "generate_and_send_token")
              /\ HasToken(database, task[t].user)
              /\ clock < ExpiresAt(database, task[t].user)) =>
            /\ task'[t].pc = "token_reply"
            /\ TokenOf(database', task[t].user).token
                   = TokenOf(database, task[t].user).token
            /\ ExpiresAt(database', task[t].user)
                   = ExpiresAt(database, task[t].user)]_vars

\* C4: a token request made when the caller has no stored token, or a stored
\* token whose expiry has been reached, stores a new token for the caller (and
\* goes on to save_db and the reply that carries it): its
\* value differs from the replaced one, its expiry is the request time plus
\* TOKEN_EXPIRY_HOURS, it is the caller's only entry and no other caller's
\* entry changes
C4_ReissueAfterExpiry ==
    [][\A t \in Tasks :
         (Acts(t, "generate_and_send_token")
              /\ (HasToken(database, task[t].user)
                     => clock >= ExpiresAt(database, task[t].user))) =>
            /\ task'[t].pc = "save_db" /\ task'[t].ret = "token_reply"
            /\ HasToken(database', task[t].user)
            /\ HasToken(database, task[t].user) =>
                   TokenOf(database', task[t].user).token
                       # TokenOf(database, task[t].user).token
            /\ TokenOf(database', task[t].user).expires
                   = isoformat(DateTime(clock + TOKEN_EXPIRY_HOURS * SecondsPerHour))
            /\ DOMAIN Tokens(database')
                   = DOMAIN Tokens(database) \cup {str(task[t].user)}
            /\ \A k \in DOMAIN Tokens(database) :
                   k # str(task[t].user)
                       => Tokens(database')[k] = Tokens(database)[k]]_vars

\* C4 witness: a caller whose token reached its expiry has just been given a
\* new one, valid for TOKEN_EXPIRY_HOURS from now; DB_FILE still holds the
\* replaced token, of another value
C4_Witness ==
    \E t \in Tasks :
        /\ task[t].pc = "save_db" /\ task[t].ret = "token_reply"
        /\ file.state = "json"
        /\ HasToken(file.doc, task[t].user)
        /\ clock >= ExpiresAt(file.doc, task[t].user)
        /\ DOMAIN Tokens(database) = {str(task[t].user)}
        /\ TokenOf(database, task[t].user).token
               # TokenOf(file.doc, task[t].user).token
        /\ ExpiresAt(database, task[t].user)
               = clock + TOKEN_EXPIRY_HOURS * SecondsPerHour

\* C5: when a process that served requests is stopped and the store is loaded
\* again from DB_FILE, the store load_db leaves in memory holds the callers,
\* tokens, expiry instants and throttle marks that were in memory before
C5_ReloadRoundTrip ==
    (/\ snapshot # None
     /\ snapshot.served
     /\ task[MainTask].pc \in {"load_db_exit", "save_db"})
        => Normalize(database) = Normalize(snapshot.db)

\* the caller list holds no identifier twice
NoDuplicates(users) ==
    \A i, j \in 1..Len(users) : users[i] = users[j] => i = j

\* C6: add_user returns True exactly when the caller was not yet in the list,
\* afterwards the caller is in the list, and the list never holds an
\* identifier twice, however the /start coroutines interleave
C6_RegistrationIdempotent ==
    [][/\ NoDuplicates(get_all_users(database'))
       /\ \A t \in Tasks :
            Acts(t, "start_command") =>
               /\ task'[t].val.v = ~InList(task[t].user, get_all_users(database))
               /\ InList(task[t].user, get_all_users(database'))
               /\ InList(task[t].user, get_all_users(database))
                      => get_all_users(database') = get_all_users(database)]_vars

\* C6 witness: two /start requests of one caller are in flight, add_user
\* returned True to one and False to the other, and the caller is listed
C6_Witness ==
    \E a, b \in Tasks :
        /\ task[a].user = task[b].user
        /\ task[a].pc = "start_reply" /\ task[a].val = [type |-> "bool", v |-> TRUE]
        /\ task[b].pc = "start_reply" /\ task[b].val = [type |-> "bool", v |-> FALSE]
        /\ InList(task[a].user, get_all_users(database))
        /\ NoDuplicates(get_all_users(database))

\* C7: with DB_FILE absent, load_db runs to its end: until main is serving,
\* load_db (or the save_db it calls) always has a step it can take
C7_LoadAbsentTerminates ==
    (file.state = "absent" /\ task[MainTask].pc # "serving") => ENABLED MainNext

\* C8: with DB_FILE unparsable, load_db runs to its end whether or not the
\* backup copy succeeded: until main is serving, load_db (or the save_db it
\* calls) always has a step it can take
C8_LoadCorruptTerminates ==
    (file.state = "corrupt" /\ task[MainTask].pc # "serving") => ENABLED MainNext

\* C9: every step of a running process that changes the in-memory store is
\* taken by a coroutine that holds the store lock
C9_MutationUnderLock ==
    [][(database' # database /\ task'[MainTask].pc # "load_db")
           => db_lock # "free"]_vars

\* C10: whenever no mutating operation is between its change and the end of
\* its save, DB_FILE holds the in-memory caller list, token map and throttle map
C10_WriteThrough ==
    Quiescent => (file.state = "json" /\ json_load(file) = Normalize(database))

\* ------------------------------------------------- save_db when the write fails
\* The same stretch of save_db when open() or the write raises OSError (no
\* permission, disk full): nothing parsable replaces the file.  The exception
\* leaves the save without having been absorbed.
Mut_save_db_fails(p) ==
    /\ Continues(p, "save_db_write")
    /\ \E written \in BOOLEAN : file' = IF written THEN Corrupt ELSE file
    /\ db_lock' = "free"
    /\ task' = Finish(p, "Raised")
    /\ running' = "none"
    /\ UNCHANGED xvars
    /\ outcome' = Ended("Raised", 0)
    /\ UNCHANGED <<database, backups, clock, nextUuid, lastAdmit, snapshot>>

\* open(DB_FILE, 'w') raises before it truncated the file, or json.dump's write
\* raises after it did: `except Exception` logs the error, the lock is released
\* and save_db returns to its caller
save_db_fails(p) ==
    /\ Continues(p, "save_db_write")
    /\ \E written \in BOOLEAN : file' = IF written THEN Corrupt ELSE file
    /\ db_lock' = "free"
    /\ task' = Set(p, [task[p] EXCEPT !.pc = task[p].ret, !.ret = "none"])
    /\ UNCHANGED xvars
    /\ outcome' = NoOutcome
    /\ UNCHANGED <<database, backups, running, clock, nextUuid, lastAdmit, snapshot>>

\* the program on a file system whose writes may fail, serving one request at
\* a time
NextSaveFails ==
    \/ \E p \in {MainTask, "t1"} :
           \/ save_db_acquire(p) \/ save_db_wait(p) \/ save_db_write(p)
           \/ save_db_fails(p)
    \/ load_db(MainTask) \/ load_db_open(MainTask) \/ load_db_backup(MainTask)
    \/ load_db_exit(MainTask)
    \/ Restart
    \/ Tick
    \/ \E t \in {"t1"} :
         \/ fsub_required(t) \/ get_chat_member(t) \/ fsub_prompt(t)
         \/ token_required(t) \/ spam_check(t) \/ reply_text(t)
         \/ message_handler(t) \/ processing(t)
         \/ start_command(t) \/ start_reply(t)
         \/ callback_answer(t) \/ generate_and_send_token(t) \/ token_reply(t)

SpecSaveFails == Init /\ [][NextSaveFails]_vars

\* the save that coroutine p is in ends in this step without the file holding
\* the in-memory store
SaveFailed(p) ==
    /\ task[p].pc = "save_db_write" /\ task'[p].pc # "save_db_write"
    /\ file' # Json(database)

\* C11: when the write of DB_FILE fails during a save, the operation that
\* called save_db goes on where that call returns (add_user to the /start
\* reply, store_token to the token reply, update_spam_time into the handler),
\* the lock is released, the in-memory store is left as the mutation made it,
\* and reading it back gives the registered caller, the stored token, the mark
C11_SaveFailureAbsorbed ==
    [][\A t \in Tasks :
         SaveFailed(t) =>
            /\ task'[t].pc = task[t].ret
            /\ task'[t].pc \in {"start_reply", "token_reply", "message_handler"}
            /\ db_lock' = "free"
            /\ database' = database
            /\ task[t].ret = "start_reply"
                  => InList(task[t].user, get_all_users(database'))
            /\ task[t].ret = "token_reply"
                  => get_user_token_data(database', task[t].user).ret # None
            /\ task[t].ret = "message_handler"
                  => get_last_spam_time(database', task[t].user)
                         = DateTime(lastAdmit[task[t].user])]_vars

\* C11 witness: add_user returned True to a /start request although DB_FILE
\* still holds a store without the caller, who is in the in-memory list
C11_Witness ==
    \E t \in Tasks :
        /\ task[t].pc = "start_reply"
        /\ task[t].val = [type |-> "bool", v |-> TRUE]
        /\ InList(task[t].user, get_all_users(database))
        /\ file.state = "json"
        /\ ~InList(task[t].user, get_all_users(file.doc))

\* ------------------------------------------------- message.py: the transfer
\* the most stretches of body one download is followed over
MaxSpans == 3

\* config.ADULT_KEYWORDS_LOWER, of which the model follows one keyword
ADULT_KEYWORDS_LOWER == {"xxx"}

\* text.lower(), over the filenames of the model
lower(text) ==
    CASE text = "Clip_XXX.MP4" -> "clip_xxx.mp4"
      [] OTHER -> text

\* the keywords that occur in a text (`keyword in text`, a substring test that
\* tells upper case from lower case)
keywords_in(text) ==
    CASE text \in {"xxx.mp4", "clip_xxx.mp4"} -> {"xxx"}
      [] OTHER -> {}

\* is_adult without text.lower()
Mut_is_adult(text) ==
    \E keyword \in ADULT_KEYWORDS_LOWER : keyword \in keywords_in(text)

\* is_adult(filename): a keyword of config.ADULT_KEYWORDS_LOWER occurs in the
\* lower-cased text
is_adult(text) ==
    LET text_lower == lower(text)
    IN  \E keyword \in ADULT_KEYWORDS_LOWER : keyword \in keywords_in(text_lower)

\* the status texts that report a denial or a failure to the caller
FailureStatuses ==
    {"InvalidInput", "ResolutionFailed", "ContentBlocked", "TooLarge",
     "DownloadFailed", "UploadFailed", "Unexpected"}

\* the run has left message_handler: by a return, or by an exception that
\* went on to the dispatcher
Terminal == {"returned", "raised"}

SetRun(t, r) == [xfer EXCEPT ![t] = r]

\* os.path.exists(path)
exists(d, path) == \E f \in d : f.path = path

\* os.remove(path), which the model takes to succeed on a file that exists
remove(d, path) == {f \in d : f.path # path}

\* aiofiles.open(path, mode='wb'): the file is created, or truncated
open_wb(d, path, t) == remove(d, path) \cup {[path |-> path, by |-> t]}

\* `await status_msg.edit_text(status)`: the run suspends in the transport
\* call and goes on at `next` when it returns, at `fail` when it raises
Edit(r, status, next, fail) ==
    [r EXCEPT !.pc = "edit_text", !.status = status, !.next = next, !.fail = fail]

\* the same, for a status that reports the failure `status`
Report(r, status, next, fail) ==
    [Edit(r, status, next, fail) EXCEPT !.result = status]

\* a finally clause that leaves the file where it is
Mut_Finally(r, d) == d

\* the finally clause of the download try statement
Finally(r, d) ==
    IF ~r.downloaded_successfully /\ exists(d, download_path(r.user, r.filename))
    THEN remove(d, download_path(r.user, r.filename))
    ELSE d

\* a cleanup that leaves the file where it is
Mut_Cleanup(r, d) == d

\* the cleanup at the end of download_and_upload
Cleanup(r, d) ==
    IF exists(d, download_path(r.user, r.filename))
    THEN remove(d, download_path(r.user, r.filename))
    ELSE d

\* what the run does, without suspending, when control reaches `where`:
\*   except_Exception  the `except Exception` of the download try (148-151)
\*   finally_return    a return inside the download try: finally, then back in
\*                     message_handler, which returns
\*   finally_raise     an exception leaves the download try: finally, then the
\*                     `except Exception` of message_handler (73-75)
\*   except            an exception reaches message_handler's `except Exception`
\*   downloaded        lines 132-133, the no-op finally, the status of line 167
\*   dump_forward      line 211, and the cleanup when nothing is forwarded
\*   cleanup           lines 226-231 and the return
\* and any other `where` is the await the run suspends in
Enter(r, where, d) ==
    CASE where = "except_Exception" ->
           [run |-> Report(r, "DownloadFailed", "finally_return", "finally_raise"),
            disk |-> d]
      [] where = "finally_return" ->
           [run |-> [r EXCEPT !.pc = "returned"], disk |-> Finally(r, d)]
      [] where = "finally_raise" ->
           [run |-> Report(r, "Unexpected", "returned", "raised"),
            disk |-> Finally(r, d)]
      [] where = "except" ->
           [run |-> Report(r, "Unexpected", "returned", "raised"), disk |-> d]
      [] where = "downloaded" ->
           [run |-> Edit([r EXCEPT !.file_size_bytes = r.current_downloaded,
                                   !.downloaded_successfully = TRUE],
                         "Uploading", "send_video", "except"),
            disk |-> d]
      [] where = "dump_forward" ->
           IF r.uploaded_message /\ config.DUMP_CHAT_ID # 0
           THEN [run |-> [r EXCEPT !.pc = "forward"], disk |-> d]
           ELSE [run |-> [r EXCEPT !.pc = "returned"], disk |-> Cleanup(r, d)]
      [] where = "cleanup" ->
           [run |-> [r EXCEPT !.pc = "returned"], disk |-> Cleanup(r, d)]
      [] OTHER ->
           [run |-> [r EXCEPT !.pc = where], disk |-> d]

\* the fields of a pending status call mean nothing once it is over, and the
\* progress updates of the download phase are kept until the run has gone on
\* from the status call that follows the phase
Settle(r) ==
    IF r.pc = "edit_text" THEN r
    ELSE [r EXCEPT !.status = "none", !.next = "none", !.fail = "none",
                   !.progress = IF r.pc = "aiter_bytes" THEN @ ELSE <<>>]

\* run t, with locals r, goes on at `where`
Go(t, r, where) ==
    LET e == Enter(r, where, disk)
    IN  /\ xfer' = SetRun(t, Settle(e.run))
        /\ disk' = e.disk

\* the variables of the store and of the admission chain
svars == <<database, db_lock, file, backups, task, running, clock, nextUuid,
           lastAdmit, snapshot, outcome>>

\* message_handler is entered (the gates admitted the update) and runs to its
\* first await: the Invalid Input reply, or the Processing reply.  The slot's
\* earlier run is over; a file it left behind is nobody's any more.
extract_terabox_link(t) ==
    /\ xfer[t].pc \in {"none"} \cup Terminal
    /\ \E user_id \in Users, terabox_link \in BOOLEAN :
         xfer' = SetRun(t,
            IF terabox_link
            THEN Edit([IdleRun EXCEPT !.user = user_id],
                      "Processing", "get_terabox_download_link", "raised")
            ELSE Report([IdleRun EXCEPT !.user = user_id],
                        "InvalidInput", "returned", "raised"))
    /\ disk' = {IF f.by = t THEN [f EXCEPT !.by = "gone"] ELSE f : f \in disk}
    /\ UNCHANGED <<config, bcast, res, svars>>

\* message.reply_text / status_msg.edit_text returns or raises
edit_text(t) ==
    /\ xfer[t].pc = "edit_text"
    /\ \E accepted \in BOOLEAN :
         IF accepted
         THEN Go(t, [xfer[t] EXCEPT !.shown =
                        IF xfer[t].status \in FailureStatuses
                        THEN Append(@, xfer[t].status) ELSE @],
                 xfer[t].next)
         ELSE Go(t, xfer[t], xfer[t].fail)
    /\ UNCHANGED <<config, bcast, res, svars>>

\* await get_terabox_download_link(terabox_link), lines 53-71 up to the next
\* await: no link or no filename, an adult filename, the call of
\* download_and_upload (up to its line 83), or an exception
get_terabox_download_link(t) ==
    /\ xfer[t].pc = "get_terabox_download_link"
    /\ \/ Go(t, Report(xfer[t], "ResolutionFailed", "returned", "except"),
             "edit_text")
       \/ Go(t, xfer[t], "except")
       \/ \E filename \in FileNames :
            LET r == [xfer[t] EXCEPT !.filename = filename]
            IN  IF is_adult(filename)
                THEN Go(t, Report(r, "ContentBlocked", "returned", "except"),
                        "edit_text")
                ELSE Go(t, Edit(r, "Starting", "stream", "except"), "edit_text")
    /\ UNCHANGED <<config, bcast, res, svars>>

\* the same without the comparison of the declared length with the ceiling
Mut_stream(t) ==
    /\ xfer[t].pc = "stream"
    /\ \/ Go(t, Report(xfer[t], "DownloadFailed", "finally_return", "finally_raise"),
             "edit_text")
       \/ \E content_length_header \in ContentLengths :
            Go(t, [xfer[t] EXCEPT !.file_size_bytes = content_length_header],
               "aiofiles_open")
       \/ Go(t, xfer[t], "aiofiles_open")
    /\ UNCHANGED <<config, bcast, res, svars>>

\* dl_client.stream("GET", ...) and response.raise_for_status(), lines 88-111:
\* an HTTP or network error, a response whose Content-Length is compared with
\* the ceiling before the file is opened, or a response without the header
stream(t) ==
    /\ xfer[t].pc = "stream"
    /\ \/ Go(t, Report(xfer[t], "DownloadFailed", "finally_return", "finally_raise"),
             "edit_text")
       \/ \E content_length_header \in ContentLengths :
            LET r == [xfer[t] EXCEPT !.file_size_bytes = content_length_header]
            IN  IF r.file_size_bytes > MAX_TG_UPLOAD_SIZE_BYTES
                THEN Go(t, Report(r, "TooLarge", "finally_return",
                                  "except_Exception"), "edit_text")
                ELSE Go(t, r, "aiofiles_open")
       \/ Go(t, xfer[t], "aiofiles_open")
    /\ UNCHANGED <<config, bcast, res, svars>>

\* progress_callback(current, total, message, ...): the update is dropped when
\* message.last_update_time is set and less than 3 s old; otherwise edit_text
\* is called with the count.  `late`: 3 s or more have passed since the last
\* update.  (The attribute is set by the first update whose edit went through.)
progress_callback(r, current, late) ==
    IF r.progress = <<>> \/ late
    THEN [r EXCEPT !.progress = Append(@, current)]
    ELSE r

\* the progress calls of lines 118-119 over a stretch of chunks that starts at
\* `from` bytes and ends at r.current_downloaded: the call after the first
\* chunk, which nothing drops when no update was made yet, and the call after
\* the last chunk; the calls in between carry counts in between
progress_span(r, from, late) ==
    IF r.file_size_bytes > 0
    THEN LET first == progress_callback(r, from + chunk_size, FALSE)
         IN  IF r.current_downloaded > from + chunk_size
             THEN progress_callback(first, r.current_downloaded, late)
             ELSE progress_callback(r, r.current_downloaded, late)
    ELSE r

\* async with aiofiles.open(download_path, mode='wb'), line 114
aiofiles_open(t) ==
    /\ xfer[t].pc = "aiofiles_open"
    /\ \/ /\ xfer' = SetRun(t, [xfer[t] EXCEPT !.pc = "aiter_bytes",
                                               !.created = TRUE])
          /\ disk' = open_wb(disk, download_path(xfer[t].user, xfer[t].filename), t)
       \/ Go(t, xfer[t], "except_Exception")
    /\ UNCHANGED <<config, bcast, res, svars>>

\* the chunk loop, lines 115-134: a further stretch of body is written and
\* counted, and the total is compared with the ceiling after each chunk (so a
\* stretch is followed only if the total stayed within the ceiling before its
\* last chunk); or the write or the stream fails; or the stream ends.  With
\* a declared length, progress is called after every chunk and once more, with
\* the declared length as the count, when the stream has ended; the progress
\* calls swallow the errors of their edits.
aiter_bytes(t) ==
    /\ xfer[t].pc = "aiter_bytes"
    /\ \/ \E n \in SpanLens, late \in BOOLEAN :
            /\ xfer[t].spans < MaxSpans
            /\ xfer[t].current_downloaded + n - chunk_size
                   <= MAX_TG_UPLOAD_SIZE_BYTES
            /\ xfer[t].file_size_bytes = 0 => late  \* no progress call to drop
            /\ LET r == progress_span(
                            [xfer[t] EXCEPT
                                !.current_downloaded = @ + n, !.spans = @ + 1],
                            xfer[t].current_downloaded, late)
               IN  IF r.current_downloaded > MAX_TG_UPLOAD_SIZE_BYTES
                   THEN Go(t, Report(r, "TooLarge", "finally_return",
                                     "finally_raise"), "edit_text")
                   ELSE Go(t, r, "aiter_bytes")
       \/ Go(t, Report(xfer[t], "DownloadFailed", "finally_return",
                       "finally_raise"), "edit_text")
       \/ Go(t, xfer[t], "except_Exception")
       \/ IF xfer[t].file_size_bytes > 0
          THEN \E late \in BOOLEAN :
                  Go(t, progress_callback(xfer[t], xfer[t].file_size_bytes, late),
                     "downloaded")
          ELSE Go(t, Edit(xfer[t], "DownloadComplete", "downloaded",
                          "except_Exception"), "edit_text")
    /\ UNCHANGED <<config, bcast, res, svars>>

\* `except FloodWait as fw` of the upload try, line 188-190
except_FloodWait(r, w) ==
    Edit([r EXCEPT !.fw = w], "FloodWaitPaused", "sleep", "except")

\* `except RPCError` / `except Exception` of the upload try, lines 202-208
except_RPCError(r) == Report(r, "UploadFailed", "dump_forward", "except")

\* `except Exception as retry_err` of the retry, lines 199-201
except_retry_err(r) == Report(r, "UploadFailed", "dump_forward", "except")

\* the first client.send_video, line 176
send_video(t) ==
    /\ xfer[t].pc = "send_video"
    /\ LET r == [xfer[t] EXCEPT !.sends = @ + 1]
       IN  \/ Go(t, [r EXCEPT !.uploaded_message = TRUE], "delete")
           \/ \E w \in FloodWaits : Go(t, except_FloodWait(r, w), "edit_text")
           \/ Go(t, except_RPCError(r), "edit_text")
    /\ UNCHANGED <<config, bcast, res, svars>>

\* status_msg.delete() after the first send, line 186, still inside the try
delete(t) ==
    /\ xfer[t].pc = "delete"
    /\ \/ Go(t, xfer[t], "dump_forward")
       \/ \E w \in FloodWaits : Go(t, except_FloodWait(xfer[t], w), "edit_text")
       \/ Go(t, except_RPCError(xfer[t]), "edit_text")
    /\ UNCHANGED <<config, bcast, res, svars>>

\* asyncio.sleep(fw.value + 2), line 191
sleep(t) ==
    /\ xfer[t].pc = "sleep"
    /\ Go(t, [xfer[t] EXCEPT !.slept = Append(@, xfer[t].fw + 2)],
          "send_video_retry")
    /\ UNCHANGED <<config, bcast, res, svars>>

\* the second client.send_video, line 194
send_video_retry(t) ==
    /\ xfer[t].pc = "send_video_retry"
    /\ LET r == [xfer[t] EXCEPT !.sends = @ + 1]
       IN  \/ Go(t, [r EXCEPT !.uploaded_message = TRUE], "delete_retry")
           \/ Go(t, except_retry_err(r), "edit_text")
    /\ UNCHANGED <<config, bcast, res, svars>>

\* status_msg.delete() after the second send, line 198
delete_retry(t) ==
    /\ xfer[t].pc = "delete_retry"
    /\ \/ Go(t, xfer[t], "dump_forward")
       \/ Go(t, except_retry_err(xfer[t]), "edit_text")
    /\ UNCHANGED <<config, bcast, res, svars>>

\* uploaded_message.forward(config.DUMP_CHAT_ID), line 213: done, FloodWait,
\* or another error (logged)
forward(t) ==
    /\ xfer[t].pc = "forward"
    /\ LET r == [xfer[t] EXCEPT !.forwards = @ + 1]
       IN  \/ Go(t, [r EXCEPT !.forwarded = TRUE], "cleanup")
           \/ \E w \in FloodWaits : Go(t, [r EXCEPT !.fw = w], "forward_sleep")
           \/ Go(t, r, "cleanup")
    /\ UNCHANGED <<config, bcast, res, svars>>

\* asyncio.sleep(fw.value + 1), line 217
forward_sleep(t) ==
    /\ xfer[t].pc = "forward_sleep"
    /\ Go(t, [xfer[t] EXCEPT !.slept = Append(@, xfer[t].fw + 1)],
          "forward_retry")
    /\ UNCHANGED <<config, bcast, res, svars>>

\* the forward fails again and the error leaves download_and_upload
Mut_forward_retry(t) ==
    /\ xfer[t].pc = "forward_retry"
    /\ LET r == [xfer[t] EXCEPT !.forwards = @ + 1]
       IN  \/ Go(t, [r EXCEPT !.forwarded = TRUE], "cleanup")
           \/ Go(t, r, "except")
    /\ UNCHANGED <<config, bcast, res, svars>>

\* the second forward, line 219: done or failed (logged), then the cleanup
forward_retry(t) ==
    /\ xfer[t].pc = "forward_retry"
    /\ LET r == [xfer[t] EXCEPT !.forwards = @ + 1]
       IN  \/ Go(t, [r EXCEPT !.forwarded = TRUE], "cleanup")
           \/ Go(t, r, "cleanup")
    /\ UNCHANGED <<config, bcast, res, svars>>

\* the bot is serving; main loaded a store, and the archive chat is set or not
TransferInit ==
    /\ xfer = [t \in Tasks |-> IdleRun]
    /\ disk = {}
    /\ config \in {[DUMP_CHAT_ID |-> c, BROADCAST_ENABLED |-> TRUE] :
                      c \in DumpChatIds}
    /\ bcast = IdleCast
    /\ res = IdleCall
    /\ database = EmptyStore
    /\ db_lock = "free"
    /\ file = Json(EmptyStore)
    /\ backups = {}
    /\ task = [p \in Procs |-> IF p = MainTask
                               THEN [IdleTask EXCEPT !.kind = "main",
                                                     !.pc = "serving"]
                               ELSE IdleTask]
    /\ running = "none"
    /\ clock = 0
    /\ nextUuid = 1
    /\ lastAdmit = [u \in Users |-> NoTime]
    /\ snapshot = None
    /\ outcome = NoOutcome

\* the link handler runs of a serving bot, one run at a time
TransferNext ==
    \E t \in {"t1"} :
        \/ extract_terabox_link(t) \/ edit_text(t) \/ get_terabox_download_link(t)
        \/ stream(t) \/ aiofiles_open(t) \/ aiter_bytes(t)
        \/ send_video(t) \/ delete(t) \/ sleep(t)
        \/ send_video_retry(t) \/ delete_retry(t)
        \/ forward(t) \/ forward_sleep(t) \/ forward_retry(t)

SpecTransfer == TransferInit /\ [][TransferNext]_vars

\* ------------------------------------------------- claims on the transfer
\* control has left download_and_upload for good: message_handler returned or
\* raised, or it is in its own `except Exception` reporting what came out
LeftTransfer(r) ==
    \/ r.pc \in Terminal
    \/ r.pc = "edit_text" /\ r.status = "Unexpected"

\* a temporary file the run in slot t created is on disk
HasFile(t) == \E f \in disk : f.by = t

\* the positions from the opening of the temporary file to the archive forward
Transferring ==
    {"aiofiles_open", "aiter_bytes", "send_video", "delete", "sleep",
     "send_video_retry", "delete_retry", "forward", "forward_sleep",
     "forward_retry"}

\* the transport accepted the status call the run is suspended in
Accepted(t) == xfer[t].pc = "edit_text" /\ xfer'[t].shown # xfer[t].shown

\* C12: when the response declares a Content-Length above
\* MAX_TG_UPLOAD_SIZE_BYTES, the run sets out to report File Too Large and, the
\* transport accepting that status, returns with it as the one failure shown;
\* in every state of such a run nothing was written, the temporary file was
\* never opened, and no send_video or forward was called
C12_DeclaredTooLarge ==
    [][\A t \in {"t1"} :
         /\ (xfer[t].pc = "stream"
                /\ xfer'[t].file_size_bytes > MAX_TG_UPLOAD_SIZE_BYTES)
               => /\ xfer'[t].pc = "edit_text"
                  /\ xfer'[t].status = "TooLarge"
                  /\ xfer'[t].result = "TooLarge"
         /\ (Accepted(t) /\ xfer[t].status = "TooLarge"
                /\ xfer[t].file_size_bytes > MAX_TG_UPLOAD_SIZE_BYTES)
               => /\ xfer'[t].pc = "returned"
                  /\ xfer'[t].shown = <<"TooLarge">>
         /\ xfer'[t].file_size_bytes > MAX_TG_UPLOAD_SIZE_BYTES
               => /\ ~xfer'[t].created
                  /\ xfer'[t].current_downloaded = 0
                  /\ xfer'[t].sends = 0 /\ xfer'[t].forwards = 0
                  /\ xfer'[t].pc \notin Transferring
                  /\ ~HasFile(t)']_vars

\* C12 witness: a run whose response declared more than the ceiling returned
\* with File Too Large shown, without file, upload or forward
C12_Witness ==
    \E t \in {"t1"} :
        /\ xfer[t].pc = "returned"
        /\ xfer[t].file_size_bytes = MAX_TG_UPLOAD_SIZE_BYTES + 1
        /\ xfer[t].shown = <<"TooLarge">>
        /\ ~xfer[t].created /\ xfer[t].sends = 0 /\ xfer[t].forwards = 0
        /\ disk = {}

\* C13: when the running total of streamed bytes exceeds the ceiling (as it can
\* only be found out when no Content-Length above the ceiling was declared),
\* the run sets out to report File Too Large and, the transport accepting that
\* status, returns with it as the one failure shown; once control has left
\* download_and_upload the partial file is gone; no send_video is ever called
C13_StreamedTooLarge ==
    [][\A t \in {"t1"} :
         /\ (xfer[t].pc = "aiter_bytes"
                /\ xfer'[t].current_downloaded > MAX_TG_UPLOAD_SIZE_BYTES)
               => /\ xfer'[t].pc = "edit_text"
                  /\ xfer'[t].status = "TooLarge"
                  /\ xfer'[t].result = "TooLarge"
         /\ (Accepted(t) /\ xfer[t].status = "TooLarge"
                /\ xfer[t].current_downloaded > MAX_TG_UPLOAD_SIZE_BYTES)
               => /\ xfer'[t].pc = "returned"
                  /\ xfer'[t].shown = <<"TooLarge">>
         /\ xfer'[t].current_downloaded > MAX_TG_UPLOAD_SIZE_BYTES
               => /\ ~xfer'[t].downloaded_successfully
                  /\ xfer'[t].sends = 0 /\ xfer'[t].forwards = 0
                  /\ LeftTransfer(xfer'[t]) => ~HasFile(t)']_vars

\* C13 witness: a run without declared length wrote more than the ceiling,
\* returned with File Too Large shown, and its file is gone
C13_Witness ==
    \E t \in {"t1"} :
        /\ xfer[t].pc = "returned"
        /\ xfer[t].file_size_bytes = 0
        /\ xfer[t].created
        /\ xfer[t].current_downloaded > MAX_TG_UPLOAD_SIZE_BYTES
        /\ xfer[t].shown = <<"TooLarge">>
        /\ xfer[t].sends = 0
        /\ ~exists(disk, download_path(xfer[t].user, xfer[t].filename))

\* C14: once control has left download_and_upload, on whatever path, the
\* temporary file the run created does not exist
C14_TempFileRemoved ==
    \A t \in {"t1"} : LeftTransfer(xfer[t]) => ~HasFile(t)

\* the first send_video of the run raised FloodWait and no send has succeeded
FirstSendFlooded(r) == r.sends >= 1 /\ r.fw > 0 /\ ~r.uploaded_message

\* C15: after a FloodWait of w seconds on the first send_video the run sleeps
\* at least w and calls send_video once more (it does not leave
\* download_and_upload without); a failed second call is reported as Upload
\* Failed and followed by no third; no run calls send_video more than twice
C15_UploadRetriedOnce ==
    \A t \in {"t1"} :
        /\ xfer[t].sends <= 2
        /\ xfer[t].sends = 2
              => Len(xfer[t].slept) >= 1 /\ xfer[t].slept[1] >= xfer[t].fw
        /\ (FirstSendFlooded(xfer[t]) /\ LeftTransfer(xfer[t]))
              => /\ xfer[t].sends = 2
                 /\ xfer[t].pc = "returned" => "UploadFailed" \in
                        {xfer[t].shown[i] : i \in 1..Len(xfer[t].shown)}

\* C16: a forward that fails, at the first call or at the retry, reports
\* nothing to the caller and changes nothing of what the run reports; the run
\* goes on to the cleanup and returns, and its temporary file is removed
C16_ForwardFailureInvisible ==
    [][\A t \in {"t1"} :
         (xfer[t].pc \in {"forward", "forward_sleep", "forward_retry"}
              /\ xfer'[t] # xfer[t]) =>
            /\ xfer'[t].shown = xfer[t].shown
            /\ xfer'[t].result = xfer[t].result
            /\ xfer'[t].pc \in {"forward_sleep", "forward_retry", "returned"}
            /\ xfer'[t].pc = "returned" => ~HasFile(t)']_vars

\* C16 witness: both forward calls failed; the run returned as the success it
\* was, with nothing reported and the temporary file removed
C16_Witness ==
    \E t \in {"t1"} :
        /\ xfer[t].pc = "returned"
        /\ xfer[t].forwards = 2 /\ ~xfer[t].forwarded
        /\ xfer[t].uploaded_message /\ xfer[t].result = "none"
        /\ xfer[t].shown = <<>>
        /\ xfer[t].created
        /\ disk = {}

\* C17: forward is called only in runs where DUMP_CHAT_ID is set, send_video
\* delivered the media and the caller is not told Upload Failed; it is called
\* at most twice, the second time only after a sleep
C17_ForwardOnlyAfterUpload ==
    \A t \in {"t1"} :
        xfer[t].forwards > 0 =>
            /\ config.DUMP_CHAT_ID # 0
            /\ xfer[t].uploaded_message
            /\ xfer[t].result # "UploadFailed"
            /\ xfer[t].forwards <= 2
            /\ xfer[t].forwards = 2 => Len(xfer[t].slept) >= 1

\* ------------------------------------------------- claims on the gates
\* the coroutine in slot t is a link request
LinkRequest(t) == task[t].kind = "link"

\* the coroutine in slot t ends in this step
Ends(t) == task[t] # IdleTask /\ task' = Drop(t)

\* the process is stopped and started again in this step: the requests in
\* flight are gone with it
Restarted == task[MainTask].pc = "serving" /\ task'[MainTask].pc = "load_db"

\* the step is one of the coroutine in slot t: it goes on in its synchronous
\* stretch, or it is resumed and no other slot changes but by its own end
Own(t) ==
    \/ running = t
    \/ /\ running = "none" /\ ~Restarted
       /\ \/ task' = Drop(t)
          \/ \A q \in Procs \ {t} : task'[q] = task[q]

\* the coroutine in slot t itself leaves the position `where` in this step
Leaves(t, where) == Acts(t, where) /\ Own(t)

\* the throttle marks of the store
Marks(db) == Get(db, "spam_tracker", EmptyDict)

\* C18: for a link request of a non-privileged caller the gates run in the
\* order membership, token, throttle, each entered only from the one before,
\* and message_handler only from the save that follows the throttle gate's
\* mark.  A request the membership gate does not pass ends without a change
\* to the store (no token entry read into it, no mark); a request the token
\* gate does not pass ends without a change to the marks; a request the
\* throttle gate denies ends without a change to the store.  (Steps of the
\* process being stopped and started again are not steps of the gates.)
C18_GatesInOrder ==
    [][\A t \in Tasks :
         (LinkRequest(t) /\ NonAdmin(t)) =>
            /\ Leaves(t, "get_chat_member") =>
                  /\ database' = database /\ lastAdmit' = lastAdmit
                  /\ \/ task'[t].pc \in {"token_required", "fsub_prompt"}
                     \/ Ends(t)
            /\ Leaves(t, "fsub_prompt") =>
                  /\ Ends(t) /\ database' = database /\ lastAdmit' = lastAdmit
                  /\ disk' = disk
            /\ Leaves(t, "token_required") =>
                  /\ Marks(database') = Marks(database) /\ lastAdmit' = lastAdmit
                  /\ \/ task'[t].pc = "spam_check"
                     \/ task'[t].pc = "reply_text"
                           /\ task'[t].result = "TokenRequired"
                     \/ Ends(t)
            /\ Leaves(t, "spam_check") =>
                  \/ task'[t].pc = "save_db" /\ task'[t].ret = "message_handler"
                  \/ /\ task'[t].pc = "reply_text"
                     /\ task'[t].result = "RateLimited"
                     /\ database' = database /\ lastAdmit' = lastAdmit
            /\ Leaves(t, "reply_text") => Ends(t) /\ database' = database
            /\ (task'[t].pc = "token_required" /\ task[t].pc # "token_required")
                  => task[t].pc = "get_chat_member"
            /\ (task'[t].pc = "spam_check" /\ task[t].pc # "spam_check")
                  => task[t].pc = "token_required"
            /\ (task'[t].pc = "message_handler" /\ task[t].pc # "message_handler")
                  => task[t].pc = "save_db_write" /\ task[t].ret = "message_handler"]_vars

\* C18 witness: a link request of a non-privileged member without token is
\* about to be told Token Required; the caller has no mark
C18_Witness ==
    \E t \in Tasks :
        /\ LinkRequest(t) /\ NonAdmin(t)
        /\ task[t].pc = "reply_text" /\ task[t].result = "TokenRequired"
        /\ ~HasToken(database, task[t].user)
        /\ str(task[t].user) \notin DOMAIN Marks(database)
        /\ lastAdmit[task[t].user] = NoTime

\* C19: a link request of a caller in ADMIN_IDS goes from the dispatcher
\* through the three wrappers into message_handler in one stretch: it is never
\* in the membership lookup, in a denial reply or in a save, and its steps
\* through the gates change neither the store nor the admission history
C19_AdminBypass ==
    [][\A t \in Tasks :
         /\ (task'[t].kind = "link" /\ task'[t].user \in ADMIN_IDS)
               => task'[t].pc \in {"token_required", "spam_check",
                                   "message_handler", "processing"}
         /\ (LinkRequest(t) /\ task[t].user \in ADMIN_IDS) =>
               /\ Acts(t, "token_required") =>
                     /\ task'[t].pc = "spam_check"
                     /\ database' = database /\ lastAdmit' = lastAdmit
               /\ Acts(t, "spam_check") =>
                     /\ task'[t].pc = "message_handler"
                     /\ database' = database /\ lastAdmit' = lastAdmit]_vars

\* C19 witness: two link requests of an admin who holds no token are in the
\* handler at the same instant, and the admin has no mark
C19_Witness ==
    \E a, b \in Tasks :
        /\ a # b
        /\ task[a].kind = "link" /\ task[a].pc = "processing"
        /\ task[b].kind = "link" /\ task[b].pc = "processing"
        /\ task[a].user \in ADMIN_IDS /\ task[b].user = task[a].user
        /\ ~HasToken(database, task[a].user)
        /\ str(task[a].user) \notin DOMAIN Marks(database)

\* ------------------------------------------------- /broadcast
\* the status is re-edited whenever success_count + failed_count is a
\* multiple of this
StatusEvery == 50

\* the run awaits message.reply_text(...) with this text
Reply(b, status) == [b EXCEPT !.pc = "reply_text", !.status = status]

\* the run awaits status_message.edit_text(...) and goes on at `next`
StatusEdit(b, status, next) ==
    [b EXCEPT !.pc = "edit_text", !.status = status, !.next = next]

\* the coroutine returns / an exception leaves it
Return(b) == [b EXCEPT !.pc = "done", !.result = "returned"]
Raise(b) == [b EXCEPT !.pc = "done", !.result = "raised"]

\* `for user_id in user_ids`: the list iterator takes the next entry of the
\* list object get_all_users returned, which is _database['users'] itself;
\* after the last entry the run edits the status to Broadcast Complete
NextUser(b) ==
    LET user_ids == get_all_users(database)
    IN  IF b.i < Len(user_ids)
        THEN [b EXCEPT !.i = @ + 1, !.user_id = user_ids[b.i + 1],
                       !.pc = "send"]
        ELSE StatusEdit(b, "Complete", "return")

\* the end of the loop body: the periodic status edit, or the next entry
AfterIter(b) ==
    IF (b.success_count + b.failed_count) % StatusEvery = 0
    THEN StatusEdit(b, "Broadcasting", "loop")
    ELSE NextUser(b)

\* broadcast_command up to its first await
broadcast_command(b) ==
    IF ~config.BROADCAST_ENABLED THEN Reply(b, "Disabled")
    ELSE IF b.form = "bare" THEN Reply(b, "Usage")
    ELSE IF b.form = "caption" THEN Raise(b)
    ELSE LET user_ids == get_all_users(database)
             c == [b EXCEPT !.read = TRUE, !.total_users = Len(user_ids)]
         IN  IF c.total_users = 0 THEN Reply(c, "NoUsers")
                                  ELSE Reply(c, "Starting")

\* the wrapper of admin_required calling broadcast_command for every caller
Mut_admin_required ==
    /\ task[MainTask].pc = "serving" /\ running = "none"
    /\ bcast.pc \in {"none", "done"}
    /\ \E u \in Users, f \in Forms :
          bcast' = broadcast_command([IdleCast EXCEPT !.user = u, !.form = f])
    /\ UNCHANGED <<xfer, disk, config, res, svars>>

\* a /broadcast update in a private chat is dispatched to the wrapper of
\* admin_required, which runs to its first await: the Access Denied reply, or
\* the first await of broadcast_command
admin_required ==
    /\ task[MainTask].pc = "serving" /\ running = "none"
    /\ bcast.pc \in {"none", "done"}
    /\ \E u \in Users, f \in Forms :
          LET b == [IdleCast EXCEPT !.user = u, !.form = f]
          IN  bcast' = IF u \notin ADMIN_IDS
                       THEN Reply(b, "AccessDenied")
                       ELSE broadcast_command(b)
    /\ UNCHANGED <<xfer, disk, config, res, svars>>

\* await message.reply_text(...): the transport accepts the reply or raises;
\* every reply but the Starting one is returned
message_reply_text ==
    /\ bcast.pc = "reply_text" /\ running = "none"
    /\ \/ LET b == [bcast EXCEPT !.replies = Append(@, bcast.status)]
          IN  bcast' = IF bcast.status = "Starting" THEN NextUser(b)
                                                    ELSE Return(b)
       \/ bcast' = Raise(bcast)
    /\ UNCHANGED <<xfer, disk, config, res, svars>>

\* the first send to user_id (client.send_message or broadcast_msg.forward)
\* and the except clauses of lines 57-85
send_message ==
    /\ bcast.pc = "send" /\ running = "none"
    /\ LET b == [bcast EXCEPT !.attempts = Append(@, bcast.user_id)]
       IN  \/ bcast' = [b EXCEPT !.success_count = @ + 1,
                                 !.delivered = Append(@, b.user_id),
                                 !.pc = "sleep"]
           \/ \E w \in FloodWaits :
                 bcast' = StatusEdit([b EXCEPT !.fw = w], "FloodWait",
                                     "flood_sleep")
           \/ bcast' = AfterIter([b EXCEPT !.blocked_count = @ + 1,
                                           !.failed_count = @ + 1])
           \/ bcast' = AfterIter([b EXCEPT !.deactivated_count = @ + 1,
                                           !.failed_count = @ + 1])
           \/ bcast' = AfterIter([b EXCEPT !.failed_count = @ + 1])
    /\ UNCHANGED <<xfer, disk, config, res, svars>>

\* await asyncio.sleep(...): 0.1 s after a send that went through, fw.value + 2
\* before the second send
asyncio_sleep ==
    /\ bcast.pc \in {"sleep", "flood_sleep"} /\ running = "none"
    /\ bcast' = IF bcast.pc = "sleep" THEN AfterIter(bcast)
                                      ELSE [bcast EXCEPT !.pc = "retry"]
    /\ UNCHANGED <<xfer, disk, config, res, svars>>

\* the second send to user_id after a FloodWait, lines 65-74
send_message_retry ==
    /\ bcast.pc = "retry" /\ running = "none"
    /\ LET b == [bcast EXCEPT !.attempts = Append(@, bcast.user_id)]
       IN  \/ bcast' = [b EXCEPT !.success_count = @ + 1,
                                 !.delivered = Append(@, b.user_id),
                                 !.pc = "sleep"]
           \/ bcast' = AfterIter([b EXCEPT !.failed_count = @ + 1])
    /\ UNCHANGED <<xfer, disk, config, res, svars>>

\* await status_message.edit_text(...), lines 59, 91 and 100, none of them
\* inside a try that catches its exceptions
status_message_edit_text ==
    /\ bcast.pc = "edit_text" /\ running = "none"
    /\ \/ LET b == [bcast EXCEPT !.replies = Append(@, bcast.status)]
          IN  bcast' = CASE bcast.next = "return" -> Return(b)
                         [] bcast.next = "loop" -> NextUser(b)
                         [] OTHER -> [b EXCEPT !.pc = "flood_sleep"]
       \/ bcast' = Raise(bcast)
    /\ UNCHANGED <<xfer, disk, config, res, svars>>

\* the registered callers the store can hold when a broadcast is requested
RegisteredLists == {<<>>, <<1>>, <<1, 2>>}

BroadcastInit ==
    /\ xfer = [t \in Tasks |-> IdleRun]
    /\ disk = {}
    /\ config \in {[DUMP_CHAT_ID |-> 9, BROADCAST_ENABLED |-> e] :
                      e \in BOOLEAN}
    /\ bcast = IdleCast
    /\ res = IdleCall
    /\ database \in {[EmptyStore EXCEPT !.users = l] : l \in RegisteredLists}
    /\ db_lock = "free"
    /\ file = Json(database)
    /\ backups = {}
    /\ task = [p \in Procs |-> IF p = MainTask
                               THEN [IdleTask EXCEPT !.kind = "main",
                                                     !.pc = "serving"]
                               ELSE IdleTask]
    /\ running = "none"
    /\ clock = 0
    /\ nextUuid = 1
    /\ lastAdmit = [u \in Users |-> NoTime]
    /\ snapshot = None
    /\ outcome = NoOutcome

\* the /broadcast runs of a serving bot, one run at a time
BroadcastNext ==
    \/ admin_required \/ message_reply_text \/ send_message \/ asyncio_sleep
    \/ send_message_retry \/ status_message_edit_text

SpecBroadcast == BroadcastInit /\ [][BroadcastNext]_vars

\* C20: a /broadcast run of a caller outside ADMIN_IDS is only ever in the
\* Access Denied reply or over: get_all_users was not called, no send was
\* tried to anyone, and the caller was shown nothing but Access Denied, which
\* they were shown if the run returned
C20_BroadcastDenied ==
    (bcast.pc # "none" /\ bcast.user \notin ADMIN_IDS) =>
        /\ bcast.pc \in {"reply_text", "done"}
        /\ bcast.status = "AccessDenied"
        /\ ~bcast.read
        /\ bcast.attempts = <<>> /\ bcast.delivered = <<>>
        /\ bcast.replies \in {<<>>, <<"AccessDenied">>}
        /\ bcast.result = "returned" => bcast.replies = <<"AccessDenied">>

\* C20 witness: with broadcasting enabled and callers registered, a caller
\* outside ADMIN_IDS asked for a broadcast of a text and was told Access
\* Denied
C20_Witness ==
    /\ bcast.pc = "done" /\ bcast.result = "returned"
    /\ bcast.user \notin ADMIN_IDS /\ bcast.form = "text"
    /\ config.BROADCAST_ENABLED
    /\ Len(get_all_users(database)) > 0
    /\ bcast.replies = <<"AccessDenied">>

\* ------------------------------------------------- claims on how requests end
\* C21: when the membership lookup of a non-privileged caller's request is
\* answered (a member, not a member, a rate limit, an error), the step that
\* resumes the wrapper does not end the request with an exception: the request
\* goes on into the wrapped function, or to a further await of the wrapper
\* (the prompt, the sleep for the signalled wait) after which it returns.
C21_LookupRateLimitDenies ==
    [][\A t \in Tasks :
         (NonAdmin(t) /\ Leaves(t, "get_chat_member")) =>
            /\ outcome'.how # "Raised"
            /\ ~Ends(t)]_vars

\* C22: no request ends in the admission chain by an exception: whatever the
\* dispatcher gets from a coroutine that ended is a return
C22_DenialsReturn == outcome.how # "Raised"

\* C23: a request that ended otherwise than by its handler completing had sent
\* its caller exactly one denial or error message
C23_ExactlyOneStatus ==
    outcome.how \notin {"none", "Handled"} => outcome.told = 1

\* ------------------------------------------------- two link handler runs
\* Two admitted link requests at once: the run in "t1" is followed through
\* download_and_upload, the run in "t2" up to the opening of its temporary
\* file.
ConcurrentNext ==
    \/ TransferNext
    \/ \E t \in {"t2"} :
          \/ extract_terabox_link(t) \/ edit_text(t)
          \/ get_terabox_download_link(t)
          \/ stream(t) \/ aiofiles_open(t)

\* a serving bot with an archive chat configured
ConcurrentInit == TransferInit /\ config.DUMP_CHAT_ID # 0

SpecConcurrent == ConcurrentInit /\ [][ConcurrentNext]_vars

\* the run in slot t is inside download_and_upload
InTransfer(t) == xfer[t].filename # "none" /\ ~LeftTransfer(xfer[t])

\* C24: two runs that are inside download_and_upload at the same time have
\* different temporary file paths
C24_DistinctPaths ==
    \A a, b \in Tasks :
        (a # b /\ InTransfer(a) /\ InTransfer(b)) =>
            download_path(xfer[a].user, xfer[a].filename)
                # download_path(xfer[b].user, xfer[b].filename)

\* ------------------------------------------------- claims on the caller list
\* C25: when a request of any kind ends with its handler completed, having
\* passed the admission chain, its caller is in the caller list
C25_RegisteredOnAdmission ==
    [][\A t \in Tasks :
         (Own(t) /\ Ends(t) /\ outcome'.how = "Handled")
            => InList(task[t].user, get_all_users(database'))]_vars

\* the process is serving before and after the step
Serving == task[MainTask].pc = "serving" /\ task'[MainTask].pc = "serving"

\* C26: in every step of a serving process (registrations, token requests,
\* link requests, saves that fail), every caller of the list is still in it
\* afterwards, and the list does not get shorter
C26_ListOnlyGrows ==
    [][Serving =>
          /\ \A u \in Users :
                InList(u, get_all_users(database))
                   => InList(u, get_all_users(database'))
          /\ Len(get_all_users(database')) >= Len(get_all_users(database))]_vars

\* C26 witness: the served list grew from the stored caller 1 to callers 1
\* and 2 although the save of the registration failed and left DB_FILE
\* unparsable
C26_Witness ==
    /\ task[MainTask].pc = "serving"
    /\ get_all_users(database) = <<1, 2>>
    /\ file = Corrupt

\* C27: the queries of the store leave the in-memory store as it was: the step
\* of token_required that reads the caller's token (get_user_token_data)
\* changes nothing in it
C27_QueriesLeaveStore ==
    [][\A t \in Tasks :
         (NonAdmin(t) /\ Leaves(t, "token_required"))
            => database' = database]_vars

\* ------------------------------------------------- bot/utils/terabox.py
\* no `"size": <digits>` field / no `size` key
NoSize == -1

\* the values a numeric size field is followed over
SizeFields == {NoSize, 0, 1000}

\* the first entry of the embedded file list: link (dlink or downloadLink:
\* absent, a string without "http", a URL), filename (server_filename or
\* filename present), size and whether the size is written as a string
Items ==
    {i \in [link : {"none", "nohttp", "http"}, filename : BOOLEAN,
            size : SizeFields, quoted : BOOLEAN] :
        i.quoted => i.size # NoSize}

NoItem == [link |-> "none", filename |-> FALSE, size |-> NoSize, quoted |-> FALSE]

\* What the resolver's patterns find in a fetched page: dlink (the first
\* dlink/download/download_url field: none, a URL whose host has no dot, a URL
\* with a host), size (the first `"size": <digits>` field anywhere in the
\* page), human (a text like "1.2 GB"), name (a server_filename field, or
\* nothing better than the default name), state (window.__INITIAL_STATE__:
\* none, not parsable as JSON, without a file list, with a first entry), item
\* (that entry), params (fs_id, shareid and uk are all present).  A size in the
\* embedded entry is a `"size": <digits>` field of the page.
Contents ==
    {c \in [dlink : {"none", "nohost", "host"}, size : SizeFields,
            human : BOOLEAN, name : {"server_filename", "default"},
            state : {"none", "unparsable", "empty", "entry"},
            item : Items, params : BOOLEAN] :
        /\ c.state # "entry" => c.item = NoItem
        /\ c.item.size # NoSize => c.size # NoSize}

\* what the api_url request can end in: a list whose first entry has a dlink,
\* one without, errno # 0, a network error, an error status
ApiAnswers == {"dlink", "nodlink", "errno", "RequestError", "HTTPStatusError"}

\* (None, None, None)
None3 == [direct_link |-> "None", filename |-> "None", file_size_str |-> "None"]

\* _format_bytes: "0 B" for 0; for any other size the first statement calls
\* math.floor, and terabox.py never imports math: NameError
format_bytes(size_bytes) ==
    IF size_bytes = 0 THEN [raised |-> FALSE, val |-> "0 B"]
                      ELSE [raised |-> TRUE, val |-> "NameError"]

\* _extract_filename: never None, never empty
extract_filename(content) ==
    IF content.name = "server_filename" THEN "a.mp4" ELSE "terabox_video.mp4"

\* _extract_filesize_str: the numeric field through _format_bytes, else the
\* human-readable text, else "Unknown"; only ValueError is caught in it
extract_filesize_str(content) ==
    IF content.size # NoSize THEN format_bytes(content.size)
    ELSE [raised |-> FALSE,
          val |-> IF content.human THEN "1.2 GB" ELSE "Unknown"]

\* Python truth of item.get('size')
Truthy(item) == item.size # NoSize /\ (item.quoted \/ item.size # 0)

\* the call returns `result`
Returns(r, result) == [r EXCEPT !.pc = "done", !.result = result]

\* the call goes on with strategy n
Tries(r, n, pc) == [r EXCEPT !.pc = pc, !.tried = n]

\* client.get(url) and raise_for_status, lines 64-66: the page, or an error the
\* outer handlers turn into (None, None, None)
client_get ==
    /\ res.pc = "client_get"
    /\ \/ res' = Tries(res, 1, "strategy_1")
       \/ res' = Returns(res, None3)
    /\ UNCHANGED <<xfer, disk, config, bcast, svars>>

\* strategy 1, lines 71-86.  An exception of _extract_filesize_str is not
\* caught here: it reaches `except Exception` at line 187.
strategy_1 ==
    /\ res.pc = "strategy_1"
    /\ LET content == res.content
           filename == extract_filename(content)
           file_size_str == extract_filesize_str(content)
       IN  res' =
             IF content.dlink = "none" THEN Tries(res, 2, "strategy_2")
             ELSE IF file_size_str.raised THEN Returns(res, None3)
             ELSE IF content.dlink = "host"
             THEN Returns(res, [direct_link |-> "pattern", filename |-> filename,
                                file_size_str |-> file_size_str.val])
             ELSE Tries(res, 2, "strategy_2")
    /\ UNCHANGED <<xfer, disk, config, bcast, svars>>

\* strategy 2, lines 91-126: every exception in it is caught at line 123-126
strategy_2 ==
    /\ res.pc = "strategy_2"
    /\ LET content == res.content
           item == content.item
           file_size_str == format_bytes(item.size)
       IN  res' =
             IF /\ content.state = "entry"
                /\ item.link # "none" /\ item.filename /\ Truthy(item)
                /\ ~file_size_str.raised
                /\ item.link = "http"
             THEN Returns(res, [direct_link |-> "state", filename |-> "b.mp4",
                                file_size_str |-> file_size_str.val])
             ELSE Tries(res, 3, "strategy_3")
    /\ UNCHANGED <<xfer, disk, config, bcast, svars>>

\* strategy 3, lines 133-148 and 175-177: with the three parameters the API
\* request is made, without them the call returns (None, None, None)
strategy_3 ==
    /\ res.pc = "strategy_3"
    /\ res' = IF res.content.params
              THEN [res EXCEPT !.pc = "api_get", !.api_called = TRUE]
              ELSE Returns(res, None3)
    /\ UNCHANGED <<xfer, disk, config, bcast, svars>>

\* the API request returns, lines 148-177.  An exception of
\* _extract_filesize_str is caught at line 172 (or, json being unbound, at
\* line 187): (None, None, None) either way.
api_get ==
    /\ res.pc = "api_get"
    /\ \E answer \in ApiAnswers :
         LET content == res.content
             filename == extract_filename(content)
             file_size_str == extract_filesize_str(content)
         IN  res' =
               IF answer = "dlink" /\ ~file_size_str.raised
               THEN Returns(res, [direct_link |-> "api", filename |-> filename,
                                  file_size_str |-> file_size_str.val])
               ELSE Returns(res, None3)
    /\ UNCHANGED <<xfer, disk, config, bcast, svars>>

\* a serving bot about to resolve a link whose page is any of Contents
ResolverInit ==
    /\ xfer = [t \in Tasks |-> IdleRun]
    /\ disk = {}
    /\ config = [DUMP_CHAT_ID |-> 9, BROADCAST_ENABLED |-> TRUE]
    /\ bcast = IdleCast
    /\ res \in {[pc |-> "client_get", content |-> c, result |-> None3,
                 tried |-> 0, api_called |-> FALSE] : c \in Contents}
    /\ database = EmptyStore
    /\ db_lock = "free"
    /\ file = Json(EmptyStore)
    /\ backups = {}
    /\ task = [p \in Procs |-> IF p = MainTask
                               THEN [IdleTask EXCEPT !.kind = "main",
                                                     !.pc = "serving"]
                               ELSE IdleTask]
    /\ running = "none"
    /\ clock = 0
    /\ nextUuid = 1
    /\ lastAdmit = [u \in Users |-> NoTime]
    /\ snapshot = None
    /\ outcome = NoOutcome

ResolverNext ==
    client_get \/ strategy_1 \/ strategy_2 \/ strategy_3 \/ api_get

SpecResolver == ResolverInit /\ [][ResolverNext]_vars

\* the page satisfies the pattern strategy: a dlink field with a URL with a host
PatternPage(c) == c.dlink = "host"

\* the page satisfies the embedded-state strategy: the first entry of the file
\* list has a link, a filename and a size
StatePage(c) ==
    /\ c.state = "entry"
    /\ c.item.link = "http" /\ c.item.filename /\ Truthy(c.item)

\* C28: for a fetched page that satisfies both the pattern strategy and the
\* embedded-state strategy the call returns the pattern strategy's link; and
\* the API request is made only after strategies 1 and 2 were tried
C28_PatternFirst ==
    /\ (res.pc = "done" /\ res.tried >= 1
           /\ PatternPage(res.content) /\ StatePage(res.content))
          => res.result.direct_link = "pattern"
    /\ (res.pc # "none" /\ res.api_called) => res.tried = 3

\* C29: the call returns (None, None, None) for a fetched page only after all
\* three strategies were tried, and every link it returns comes with a
\* non-empty filename
C29_NeverAborts ==
    (res.pc = "done" /\ res.tried >= 1) =>
        /\ res.result = None3 => res.tried = 3
        /\ res.result # None3 => res.result.filename \notin {"None", ""}

\* ------------------------------------------------- end to end
\* the run in slot t is over, its download completed within the ceiling, a
\* send_video was accepted, and the run never set out to report a failure (no
\* status call of it was refused, the status message was deleted)
WentThrough(t) ==
    /\ xfer[t].pc \in Terminal
    /\ xfer[t].downloaded_successfully /\ xfer[t].uploaded_message
    /\ xfer[t].result = "none"

InHandler(t) ==
    \/ task[t].pc \in {"message_handler", "processing"}
    \/ task[t].pc \in {"save_db", "save_db_write"} /\ task[t].ret = "message_handler"

\* the caller's stored mark, as spam_check reads it
MarkOf(u) == get_last_spam_time(database, u)

\* C31 as stated: whenever the link handler of a non-privileged caller is
\* running, the caller's stored mark is the instant at which that request was
\* admitted
C31_MarkIsThisAdmission ==
    \A t \in Tasks :
        (LinkRequest(t) /\ NonAdmin(t) /\ InHandler(t))
            => MarkOf(task[t].user) = DateTime(task[t].now_utc)

\* C31: whenever the link handler of a non-privileged caller is running (or
\* the mark's save is under way), the caller's stored mark is a timestamp, the
\* instant of the caller's most recent admission, and not earlier than the
\* instant at which this request was admitted; so the mark can only have moved
\* forward since, and a request inside the cooldown of this admission finds it
C31_MarkBeforeHandler ==
    \A t \in Tasks :
        (LinkRequest(t) /\ NonAdmin(t) /\ InHandler(t)) =>
            /\ task[t].now_utc # NoTime /\ task[t].now_utc <= clock
            /\ MarkOf(task[t].user) # None
            /\ MarkOf(task[t].user).at = lastAdmit[task[t].user]
            /\ MarkOf(task[t].user).at >= task[t].now_utc

\* C31 witness: the handler of a non-privileged caller is still running half a
\* minute after its admission, and a second request of the caller is about to
\* be told to wait
C31_Witness ==
    \E a, b \in Tasks :
        /\ a # b /\ task[a].user = task[b].user /\ NonAdmin(a)
        /\ LinkRequest(a) /\ task[a].pc = "processing" /\ task[a].result = "none"
        /\ clock = task[a].now_utc + 30
        /\ MarkOf(task[a].user) = DateTime(task[a].now_utc)
        /\ LinkRequest(b) /\ task[b].pc = "reply_text"
        /\ task[b].result = "RateLimited"

\* ------------------------------------------------- the second send
\* C32: a run calls send_video a second time only after its first call raised
\* FloodWait: while the run waits for the retry or is in it, no send of it has
\* delivered the media; a run with two calls handled a FloodWait and slept; no
\* run calls send_video more than twice
C32_ResendOnlyAfterFlood ==
    \A t \in {"t1"} :
        /\ xfer[t].pc \in {"sleep", "send_video_retry"}
              => ~xfer[t].uploaded_message
        /\ xfer[t].sends = 2 => xfer[t].fw > 0 /\ Len(xfer[t].slept) >= 1
        /\ xfer[t].sends <= 2

\* ------------------------------------------------- progress updates
\* C33: the byte counts of the download progress updates of a run, the final
\* update after the end of the stream included, never decrease from one update
\* to the next
C33_ProgressMonotone ==
    \A t \in {"t1"} :
        \A i, j \in DOMAIN xfer[t].progress :
            i < j => xfer[t].progress[i] <= xfer[t].progress[j]

\* ------------------------------------------------- the cooldown window
\* the most half cooldowns the clock is followed over
MaxHalves == 2

\* a store an earlier run of the bot left in DB_FILE after it admitted caller
\* 1 at the clock's origin
StoredMarked ==
    [StoredBefore EXCEPT
        !.spam_tracker = [k \in {"1"} |-> isoformat(DateTime(0))]]

\* time passes, half a cooldown at a time, while no coroutine is inside
\* synchronous code
Elapse ==
    /\ running = "none"
    /\ clock < MaxHalves * (SPAM_DELAY_SECONDS \div 2)
    /\ clock' = clock + SPAM_DELAY_SECONDS \div 2
    /\ UNCHANGED xvars
    /\ outcome' = NoOutcome
    /\ UNCHANGED <<database, db_lock, file, backups, task, running, nextUuid,
                   lastAdmit, snapshot>>

\* the bot is serving the store it loaded: caller 1 holds a token and was, or
\* was not, admitted at the clock's origin
ThrottleInit ==
    /\ xfer = [t \in Tasks |-> IdleRun]
    /\ disk = {}
    /\ config = [DUMP_CHAT_ID |-> 9, BROADCAST_ENABLED |-> TRUE]
    /\ bcast = IdleCast
    /\ res = IdleCall
    /\ database \in {StoredBefore, StoredMarked}
    /\ db_lock = "free"
    /\ file = Json(database)
    /\ backups = {}
    /\ task = [p \in Procs |-> IF p = MainTask
                               THEN [IdleTask EXCEPT !.kind = "main",
                                                     !.pc = "serving"]
                               ELSE IdleTask]
    /\ running = "none"
    /\ clock = 0
    /\ nextUuid = 1
    /\ lastAdmit = [u \in Users |->
                       IF database = StoredMarked /\ u = 1 THEN 0 ELSE NoTime]
    /\ snapshot = None
    /\ outcome = NoOutcome

\* the requests of a serving bot over the cooldown that follows the origin
ThrottleNext ==
    \/ Elapse
    \/ \E t \in Tasks :
         \/ save_db_acquire(t) \/ save_db_write(t)
         \/ fsub_required(t) \/ get_chat_member(t) \/ fsub_prompt(t)
         \/ token_required(t) \/ spam_check(t) \/ reply_text(t)
         \/ message_handler(t) \/ processing(t)
         \/ start_command(t) \/ start_reply(t)
         \/ callback_answer(t) \/ generate_and_send_token(t) \/ token_reply(t)

SpecThrottle == ThrottleInit /\ [][ThrottleNext]_vars

\* C34: a request of a non-privileged caller that reaches spam_check while the
\* clock is before the caller's stored mark plus SPAM_DELAY_SECONDS is denied
\* and the step, like the denial's reply after it, leaves the store as it is;
\* a request that reaches spam_check at that instant or later, or while the
\* caller has no mark, is admitted and the mark becomes the present instant
C34_DenialKeepsMark ==
    [][\A t \in Tasks :
         /\ (NonAdmin(t) /\ Leaves(t, "spam_check")) =>
               IF MarkOf(task[t].user) # None
                     /\ clock < MarkOf(task[t].user).at + SPAM_DELAY_SECONDS
               THEN /\ task'[t].pc = "reply_text"
                    /\ task'[t].result = "RateLimited"
                    /\ database' = database
               ELSE /\ task'[t].pc = "save_db"
                    /\ task'[t].ret = "message_handler"
                    /\ get_last_spam_time(database', task[t].user)
                           = DateTime(clock)
         /\ (Leaves(t, "reply_text") /\ task[t].result = "RateLimited")
               => Ends(t) /\ database' = database]_vars

\* C34 witness: a request of caller 1 that was denied inside the window of the
\* admission at 0 still awaits its reply when, exactly SPAM_DELAY_SECONDS after
\* that admission, the caller's next request has been admitted
C34_Witness ==
    \E a, b \in Tasks :
        /\ a # b /\ task[a].user = 1 /\ task[b].user = 1
        /\ LinkRequest(a) /\ task[a].pc = "reply_text"
        /\ task[a].result = "RateLimited"
        /\ LinkRequest(b) /\ task[b].pc = "processing"
        /\ task[b].now_utc = SPAM_DELAY_SECONDS
        /\ clock = SPAM_DELAY_SECONDS
        /\ MarkOf(1) = DateTime(SPAM_DELAY_SECONDS)

\* ------------------------------------------------- the gate and the issuance
\* C35: at every instant and for every non-privileged caller, when
\* token_required would let the caller's request pass, a token request of the
\* caller would be answered with the existing token and issue none (so when a
\* token request would issue a token, the gate would deny)
C35_GateAndIssuanceAgree ==
    \A u \in Users \ ADMIN_IDS :
        LET token_data == get_user_token_data(database, u).ret
        IN  token_passes(token_data, clock) => token_active(token_data, clock)

\* ------------------------------------------------- Upload Failed
\* C36: once message_handler has returned or raised, a run in which the caller
\* was told Upload Failed delivered no media and made no forward, and a run
\* that delivered the media did not tell the caller Upload Failed
C36_UploadFailedMeansUndelivered ==
    \A t \in {"t1"} :
        (xfer[t].pc \in Terminal /\ InList("UploadFailed", xfer[t].shown))
            => ~xfer[t].uploaded_message /\ xfer[t].forwards = 0

\* ------------------------------------------------- a request without a link
\* the admitted request in slot t had no link in its text and awaits the
\* Invalid Input reply
InvalidInput(t) ==
    /\ LinkRequest(t) /\ NonAdmin(t)
    /\ task[t].pc = "processing" /\ task[t].result = "InvalidInput"

\* C37: while an admitted request without a recognised link awaits its Invalid
\* Input reply, the caller's mark is already set, to that admission's instant
\* or a later one; the request then ends with that one reply and nothing else:
\* the store, mark included, the transfer state, the temporary files and the
\* resolver are left as they were; and a request of the same caller that
\* reaches spam_check less than SPAM_DELAY_SECONDS after that admission is
\* denied as rate-limited
C37_InvalidInputConsumesMark ==
    [][\A t \in Tasks :
         InvalidInput(t) =>
            /\ MarkOf(task[t].user) # None
            /\ MarkOf(task[t].user).at >= task[t].now_utc
            /\ Leaves(t, "processing") =>
                  /\ Ends(t) /\ outcome' = Ended("InvalidInput", 1)
                  /\ database' = database
                  /\ xfer' = xfer /\ disk' = disk /\ res' = res
            /\ \A b \in Tasks \ {t} :
                  (task[b].user = task[t].user /\ Leaves(b, "spam_check")
                       /\ clock - task[t].now_utc < SPAM_DELAY_SECONDS)
                     => /\ task'[b].pc = "reply_text"
                        /\ task'[b].result = "RateLimited"]_vars

\* C37 witness: the Invalid Input reply of a request admitted at the origin is
\* still awaited when, half a cooldown later, the caller's next request is
\* about to be told to wait
C37_Witness ==
    \E a, b \in Tasks :
        /\ a # b /\ InvalidInput(a) /\ task[b].user = task[a].user
        /\ task[a].now_utc = 0 /\ clock = SPAM_DELAY_SECONDS \div 2
        /\ LinkRequest(b) /\ task[b].pc = "reply_text"
        /\ task[b].result = "RateLimited"

\* ------------------------------------------------- the adult filter
\* the filenames of the model that hold a configured adult keyword, in lower
\* or in upper case
AdultNames == {"xxx.mp4", "Clip_XXX.MP4"}

\* C39: a run whose resolved filename holds an adult keyword, in whatever
\* case, never gets to the download: it is in the Content Blocked status call
\* (or, that call refused, in the report of the unexpected error) or over; no
\* download request was made, no byte written, no temporary file created,
\* nothing sent or forwarded; and when it returns with the status accepted,
\* Content Blocked is the one failure shown
C39_AdultBlocked ==
    \A t \in {"t1"} :
        xfer[t].filename \in AdultNames =>
            /\ xfer[t].pc \in {"edit_text"} \cup Terminal
            /\ xfer[t].pc = "edit_text"
                  => xfer[t].status \in {"ContentBlocked", "Unexpected"}
            /\ xfer[t].result \in {"ContentBlocked", "Unexpected"}
            /\ (xfer[t].pc = "returned" /\ xfer[t].result = "ContentBlocked")
                  => xfer[t].shown = <<"ContentBlocked">>
            /\ ~xfer[t].created /\ xfer[t].current_downloaded = 0
            /\ xfer[t].spans = 0 /\ xfer[t].progress = <<>>
            /\ xfer[t].sends = 0 /\ xfer[t].forwards = 0
            /\ ~xfer[t].uploaded_message
            /\ ~HasFile(t)

\* C39 witness: a run whose filename holds the keyword in upper case returned
\* with Content Blocked shown and nothing on disk
C39_Witness ==
    /\ xfer["t1"].pc = "returned"
    /\ xfer["t1"].filename = "Clip_XXX.MP4"
    /\ xfer["t1"].shown = <<"ContentBlocked">>
    /\ ~xfer["t1"].created
    /\ disk = {}

\* ------------------------------------------------- broadcast and registration
\* a serving bot with broadcasting enabled and a caller registered
RegisterInit ==
    /\ BroadcastInit
    /\ config.BROADCAST_ENABLED
    /\ get_all_users(database) = <<1>>

\* the /broadcast runs together with the requests of the callers, one request
\* at a time: a /start run appends to the list the broadcast iterates
RegisterNext ==
    \/ BroadcastNext
    \/ \E t \in {"t1"} :
         \/ save_db_acquire(t) \/ save_db_write(t)
         \/ fsub_required(t) \/ get_chat_member(t) \/ fsub_prompt(t)
         \/ token_required(t) \/ spam_check(t) \/ reply_text(t)
         \/ message_handler(t) \/ processing(t)
         \/ start_command(t) \/ start_reply(t)
         \/ callback_answer(t) \/ generate_and_send_token(t) \/ token_reply(t)

SpecRegister == RegisterInit /\ [][RegisterNext]_vars

\* the callers that were in the list when the run called get_all_users (the
\* list only grows, at its end)
ListAtStart == SubSeq(get_all_users(database), 1, bcast.total_users)

\* C38: a broadcast run tries to send only to the callers that were in the
\* list when it started, each in at most two calls, and when it has announced
\* its completion successCount + failedCount is the total it announced at its
\* start, whoever registers meanwhile
C38_BroadcastToListAtStart ==
    bcast.read =>
        /\ \A k \in DOMAIN bcast.attempts : InList(bcast.attempts[k], ListAtStart)
        /\ \A u \in Users :
              Cardinality({k \in DOMAIN bcast.attempts : bcast.attempts[k] = u}) <= 2
        /\ (bcast.result = "returned" /\ InList("Complete", bcast.replies))
              => bcast.success_count + bcast.failed_count = bcast.total_users
====
